---- MODULE Spec2Model ----
\* A model of the Texas Hold'em engine: PokerGameEngine (round/hand state
\* machine), PokerAIDecision (intent-to-action mapper and advisory call) and
\* the round-completion predicates.
EXTENDS Integers, Sequences, FiniteSets, TLC

VARIABLES
    humanPlayer,    \* this.humanPlayer: [stack, betInCurrentRound, folded, isActive, difficulty]
    bots,           \* this.bots: sequence of [stack, betInCurrentRound, folded, isActive]
    potSize,        \* this.potSize
    currentRound,   \* this.currentRound
    boardCards,     \* this.boardCards
    deck,           \* this.deck
    startStacks,    \* history: the stacks initializeGame gave, <<human, bot 0, bot 1, ..>>
    lastCall,       \* history: the last engine call and how it ended
    applied,        \* history: the bot actions the last processHumanAction applied
    calls,          \* history: number of street/reset calls made since construction
    mapIn,          \* arguments of a call of a pure function (determineConcreteAction, PokerUtils)
    mapOut,         \* the value that call returned
    serviceToken,   \* this.serviceToken of the decision module is a non-blank string
    aiCalls,        \* the advisory calls in flight: [kind, gs, reply, pc, built, actions];
                    \* those whose next job is queued stand in the order of the queue
    aiIn,           \* the getAIActions call that settled last: [gs, reply], reply what the collaborator did
    aiOut,          \* the value that call resolved to: [actions |-> the list]
    timers          \* number of 30 s abort timers of callNscaleAPI that are pending

engineVars == <<humanPlayer, bots, potSize, currentRound, boardCards, deck,
                startStacks, lastCall, applied, calls>>
mapperVars == <<mapIn, mapOut>>
aiVars == <<serviceToken, aiCalls, aiIn, aiOut, timers>>

vars == <<engineVars, mapperVars, aiVars>>

------------------------------------------------------------------------
\* Bounds of the model

\* number of bots given to initializeGame
NumBots == 2

\* number of engine calls explored after initializeGame in the street specifications
MaxCalls == 3

------------------------------------------------------------------------
\* Helpers

Min(a, b) == IF a < b THEN a ELSE b
Max(a, b) == IF a > b THEN a ELSE b

RECURSIVE SumSeq(_)
SumSeq(s) == IF s = <<>> THEN 0 ELSE Head(s) + SumSeq(Tail(s))

Range(s) == { s[i] : i \in 1..Len(s) }

------------------------------------------------------------------------
\* Cards and the deck

Suits == <<"hearts", "diamonds", "clubs", "spades">>
Ranks == <<"2", "3", "4", "5", "6", "7", "8", "9", "T", "J", "Q", "K", "A">>

DeckSize == Len(Suits) * Len(Ranks)

\* A card is written as its number 1..52 in the order the nested loops of
\* createShuffledDeck push it (suit-major); Card(k) is the {suit, rank} object.
Card(k) ==
    [suit |-> Suits[((k - 1) \div Len(Ranks)) + 1],
     rank |-> Ranks[((k - 1) % Len(Ranks)) + 1]]

\* the deck before the shuffle loop
OrderedDeck == [k \in 1..DeckSize |-> k]

\* the exchange done as one assignment only: deck[a] = deck[b]
Swap_CopyOnly(d, a, b) == [d EXCEPT ![a] = d[b]]

Swap(d, a, b) == [d EXCEPT ![a] = d[b], ![b] = d[a]]

RECURSIVE FisherYates(_, _, _)
\* the shuffle loop: for i = length-1 down to 1, swap deck[i] and deck[j],
\* j = floor(random * (i + 1)); draw[i] is that j (0-based, 0..i)
FisherYates(d, i, draw) ==
    IF i <= 0 THEN d
    ELSE FisherYates(Swap(d, i + 1, draw[i] + 1), i - 1, draw)

\* outcomes of the random draws explored: no swap at all, always index 0,
\* and the middle index
ShuffleDraws ==
    { [i \in 1..(Len(OrderedDeck) - 1) |-> i],
      [i \in 1..(Len(OrderedDeck) - 1) |-> 0],
      [i \in 1..(Len(OrderedDeck) - 1) |-> i \div 2] }

createShuffledDeck(draw) == FisherYates(OrderedDeck, Len(OrderedDeck) - 1, draw)

------------------------------------------------------------------------
\* Players

Human == 0
BotIds == 1..NumBots
Players == {Human} \cup BotIds

Player(p) == IF p = Human THEN humanPlayer ELSE bots[p]

AllPlayers == <<humanPlayer>> \o bots

\* a starting-stack input of initializeGame: a number, or a value that is
\* not a number ("falsy": undefined, NaN, 0, null; "other": a truthy non-number)
Num(v) == [kind |-> "number", v |-> v]
StackInputs == { Num(50), Num(100), Num(200) }

minStack == 100
maxStack == 1000000
defaultStartingStack == 2000

\* a number with a fractional part, in halves: Halves(301) is 150.5
Halves(h) == [kind |-> "halves", h |-> h]

\* ensureValidStack; x is a number (kind "number": the integer v, kind
\* "halves": h / 2), NaN (kind "NaN") or a value that is not a number
ensureValidStack(x) ==
    IF x.kind \notin {"number", "halves"} THEN minStack
    ELSE LET twice == IF x.kind = "number" THEN 2 * x.v ELSE x.h
         IN  IF twice < 2 * minStack THEN minStack
             ELSE IF twice > 2 * maxStack THEN maxStack
             ELSE twice \div 2    \* Math.floor

\* bot.startingStack || 2000: undefined, null, NaN and 0 are falsy
OrDefault(x) ==
    IF x.kind \in {"falsy", "missing", "null", "NaN"} \/ (x.kind = "number" /\ x.v = 0)
    THEN Num(defaultStartingStack) ELSE x

Difficulties == {"EASY", "NORMAL", "HARD"}

------------------------------------------------------------------------
\* The betting state the engine operations work on, as one value, so that a
\* handler that applies several actions in a row can be computed step by step

EngineState == [h |-> humanPlayer, b |-> bots, pot |-> potSize]

GetP(st, p) == IF p = Human THEN st.h ELSE st.b[p]

SetP(st, p, rec) ==
    IF p = Human THEN [st EXCEPT !.h = rec] ELSE [st EXCEPT !.b[p] = rec]

getLegalActions == <<"fold", "call", "raise">>

\* action identifiers a caller may pass to applyAction: the three legal ones
\* and one the engine does not know
ActionNames == {"fold", "call", "raise", "check"}

calculateCallAmount(st, p) ==
    LET botBets == { st.b[i].betInCurrentRound :
                        i \in { j \in 1..Len(st.b) : ~st.b[j].folded } }
        highestBots == IF botBets = {} THEN 0
                       ELSE Max(0, CHOOSE m \in botBets : \A x \in botBets : x <= m)
        highestBet == IF ~st.h.folded /\ st.h.betInCurrentRound > highestBots
                      THEN st.h.betInCurrentRound ELSE highestBots
    IN  Max(0, highestBet - GetP(st, p).betInCurrentRound)

\* stack -= n; betInCurrentRound += n; potSize += n
MoveChips(st, p, n) ==
    LET pl == GetP(st, p)
        st1 == SetP(st, p, [pl EXCEPT !.stack = @ - n, !.betInCurrentRound = @ + n])
    IN  [st1 EXCEPT !.pot = @ + n]

\* applyAction with the raise not clamped to the stack (actualRaise = amount)
applyAction_RaiseUnclamped(st, p, action, amount) ==
    LET pl == GetP(st, p)
    IN  CASE action = "fold" ->
                SetP(st, p, [pl EXCEPT !.folded = TRUE, !.isActive = FALSE])
          [] action = "call" ->
                LET callAmount == Min(calculateCallAmount(st, p), pl.stack)
                IN  IF callAmount > 0 THEN MoveChips(st, p, callAmount) ELSE st
          [] action = "raise" ->
                IF amount > 0 THEN MoveChips(st, p, amount) ELSE st
          [] OTHER -> st

\* applyAction where an unknown action is taken for a fold
applyAction_UnknownFolds(st, p, action, amount) ==
    LET pl == GetP(st, p)
    IN  CASE action = "call" ->
                LET callAmount == Min(calculateCallAmount(st, p), pl.stack)
                IN  IF callAmount > 0 THEN MoveChips(st, p, callAmount) ELSE st
          [] action = "raise" ->
                LET actualRaise == Min(amount, pl.stack)
                IN  IF actualRaise > 0 THEN MoveChips(st, p, actualRaise) ELSE st
          [] OTHER -> SetP(st, p, [pl EXCEPT !.folded = TRUE, !.isActive = FALSE])

\* the state applyAction leaves
\* applyAction whose fold sets folded only
applyAction_FoldKeepsActive(st, p, action, amount) ==
    LET pl == GetP(st, p)
    IN  CASE action = "fold" -> SetP(st, p, [pl EXCEPT !.folded = TRUE])
          [] action = "call" ->
                LET callAmount == Min(calculateCallAmount(st, p), pl.stack)
                IN  IF callAmount > 0 THEN MoveChips(st, p, callAmount) ELSE st
          [] action = "raise" ->
                LET actualRaise == Min(amount, pl.stack)
                IN  IF actualRaise > 0 THEN MoveChips(st, p, actualRaise) ELSE st
          [] OTHER -> st

applyAction(st, p, action, amount) ==
    LET pl == GetP(st, p)
    IN  CASE action = "fold" ->
                SetP(st, p, [pl EXCEPT !.folded = TRUE, !.isActive = FALSE])
          [] action = "call" ->
                LET callAmount == Min(calculateCallAmount(st, p), pl.stack)
                IN  IF callAmount > 0 THEN MoveChips(st, p, callAmount) ELSE st
          [] action = "raise" ->
                LET actualRaise == Min(amount, pl.stack)
                IN  IF actualRaise > 0 THEN MoveChips(st, p, actualRaise) ELSE st
          [] OTHER -> st    \* throw inside try: caught, nothing changed

\* the record applyAction returns; st1 is the state after the switch
applyActionResult(st1, p, action, amount) ==
    IF action \in {"fold", "call", "raise"}
    THEN [success |-> TRUE,
          amount |-> IF action = "call"
                     THEN Min(calculateCallAmount(st1, p), GetP(st1, p).stack)
                     ELSE IF action = "raise" THEN Min(amount, GetP(st1, p).stack)
                     ELSE 0,
          remainingStack |-> GetP(st1, p).stack]
    ELSE [success |-> FALSE, error |-> "Unknown action"]

\* sum of betInCurrentRound over bots and human
updatePotSize(st) ==
    [st EXCEPT !.pot = SumSeq([i \in 1..Len(st.b) |-> st.b[i].betInCurrentRound])
                       + st.h.betInCurrentRound]

------------------------------------------------------------------------
\* Completion predicates

\* [this.humanPlayer, ...this.bots.filter(b => !b.folded && b.isActive)]:
\* the human is listed unconditionally. Player ids of the list.
activePlayers(st) ==
    {Human} \cup { i \in 1..Len(st.b) : ~st.b[i].folded /\ st.b[i].isActive }

isBettingRoundComplete(st) ==
    LET ap == activePlayers(st)
    IN  IF Cardinality(ap) <= 1 THEN TRUE
        ELSE Cardinality({ GetP(st, p).betInCurrentRound : p \in ap }) = 1

isRoundComplete(st) ==
    LET ap == activePlayers(st)
        betsOf == { GetP(st, p).betInCurrentRound : p \in ap }
        highestBet == CHOOSE m \in betsOf : \A x \in betsOf : x <= m
        playersWithHighestBet == { p \in ap : GetP(st, p).betInCurrentRound = highestBet }
        allInPlayers == { p \in ap : GetP(st, p).stack = 0 }
    IN  IF Cardinality(ap) <= 1 THEN TRUE
        ELSE IF Cardinality(betsOf) = 1 THEN TRUE
        ELSE Cardinality(playersWithHighestBet) + Cardinality(allInPlayers)
                = Cardinality(ap)

isHandComplete(st) == Cardinality(activePlayers(st)) <= 1

------------------------------------------------------------------------
\* PokerAIDecision: the intent-to-action mapper.
\* Confidences and the 0..1 scalars are written in tenths (0.6 is 6).

Biases == {"fold", "call", "raise"}

Includes(s, x) == \E i \in 1..Len(s) : s[i] = x

NoValue == [none |-> TRUE]

\* no determineConcreteAction or getAIActions call has been made
NoDecisionCall ==
    /\ mapIn = NoValue
    /\ mapOut = NoValue
    /\ aiIn = NoValue
    /\ aiOut = NoValue
    /\ aiCalls = <<>>
    /\ timers = 0

ConcreteAction(botAction, action, confidence) ==
    [botIndex |-> botAction.botIndex, action |-> action, confidence |-> confidence]

\* determineConcreteAction that answers the first legal action whatever the bias
determineConcreteAction_FirstLegal(botAction, gs, r03) ==
    IF Len(gs.legalActions) = 0
    THEN ConcreteAction(botAction, "call", 5)
    ELSE ConcreteAction(botAction, gs.legalActions[1], 5)

\* determineConcreteAction whose random draw chooses between call and fold
determineConcreteAction_DrawPicksAction(botAction, gs, r03) ==
    LET actionBias == botAction.actionBias
        confidence == botAction.confidence
        legalActions == gs.legalActions
        difficulty == gs.difficulty
        pot == IF gs.potSize = 0 THEN 100 ELSE gs.potSize
        playerBetSize == gs.playerBetSize
    IN  IF Len(legalActions) = 0
        THEN ConcreteAction(botAction, "call", 5)
        ELSE IF Includes(legalActions, actionBias)
        THEN ConcreteAction(botAction, actionBias, confidence)
        ELSE IF actionBias = "raise" /\ Includes(legalActions, "call")
        THEN IF difficulty = "HARD" /\ r03
             THEN ConcreteAction(botAction, "call", Min(confidence, 9))
             ELSE ConcreteAction(botAction, "fold", Min(confidence, 8))
        ELSE IF actionBias = "raise" /\ Includes(legalActions, "fold")
        THEN IF /\ difficulty = "HARD"
                /\ 10 * playerBetSize < pot * 5
                /\ Includes(legalActions, "call")
             THEN ConcreteAction(botAction, "call", Min(confidence, 7))
             ELSE ConcreteAction(botAction, "fold", Max(confidence, 3))
        ELSE IF actionBias = "call" /\ Includes(legalActions, "fold")
        THEN IF /\ difficulty = "HARD"
                /\ 10 * playerBetSize < pot * 3
                /\ Includes(legalActions, "call")
             THEN ConcreteAction(botAction, "call", Min(confidence, 8))
             ELSE ConcreteAction(botAction, "fold", Max(confidence, 4))
        ELSE IF /\ actionBias = "fold" /\ Includes(legalActions, "call")
                /\ difficulty = "HARD" /\ 10 * playerBetSize < pot * 4
        THEN ConcreteAction(botAction, "call", Max(confidence, 6))
        ELSE IF /\ actionBias = "fold" /\ Includes(legalActions, "call")
                /\ difficulty = "EASY"
        THEN ConcreteAction(botAction, "fold", confidence)
        ELSE ConcreteAction(botAction, legalActions[1], 5)

\* botAction: [botIndex, actionBias, confidence]; gs: the game state
\* (legalActions, difficulty, potSize, playerBetSize); r03: the outcome of
\* Math.random() > 0.3
determineConcreteAction(botAction, gs, r03) ==
    LET actionBias == botAction.actionBias
        confidence == botAction.confidence
        legalActions == gs.legalActions
        difficulty == gs.difficulty
        pot == IF gs.potSize = 0 THEN 100 ELSE gs.potSize
        playerBetSize == gs.playerBetSize
    IN  IF Len(legalActions) = 0
        THEN ConcreteAction(botAction, "call", 5)
        ELSE IF Includes(legalActions, actionBias)
        THEN ConcreteAction(botAction, actionBias, confidence)
        ELSE IF actionBias = "raise" /\ Includes(legalActions, "call")
        THEN IF difficulty = "HARD" /\ r03
             THEN ConcreteAction(botAction, "call", Min(confidence, 9))
             ELSE ConcreteAction(botAction, "call", Min(confidence, 8))
        ELSE IF actionBias = "raise" /\ Includes(legalActions, "fold")
        THEN IF /\ difficulty = "HARD"
                /\ 10 * playerBetSize < pot * 5
                /\ Includes(legalActions, "call")
             THEN ConcreteAction(botAction, "call", Min(confidence, 7))
             ELSE ConcreteAction(botAction, "fold", Max(confidence, 3))
        ELSE IF actionBias = "call" /\ Includes(legalActions, "fold")
        THEN IF /\ difficulty = "HARD"
                /\ 10 * playerBetSize < pot * 3
                /\ Includes(legalActions, "call")
             THEN ConcreteAction(botAction, "call", Min(confidence, 8))
             ELSE ConcreteAction(botAction, "fold", Max(confidence, 4))
        ELSE IF /\ actionBias = "fold" /\ Includes(legalActions, "call")
                /\ difficulty = "HARD" /\ 10 * playerBetSize < pot * 4
        THEN ConcreteAction(botAction, "call", Max(confidence, 6))
        ELSE IF /\ actionBias = "fold" /\ Includes(legalActions, "call")
                /\ difficulty = "EASY"
        THEN ConcreteAction(botAction, "fold", confidence)
        ELSE ConcreteAction(botAction, legalActions[1], 5)

\* rnd[i]: the outcome of Math.random() > 0.3 in the i-th call
mapIntentToActions(aiDecision, gs, rnd) ==
    [i \in 1..Len(aiDecision.botActions) |->
        determineConcreteAction(aiDecision.botActions[i], gs, rnd[i])]

------------------------------------------------------------------------
\* PokerAIDecision: the advisory call and the validation of its answer

\* A decision object: has is the set of fields present; botActions is a
\* sequence of [botIndex, actionBias, confidence] (botIndex 0-based).
DecisionFields == {"globalPlan", "aggression", "bluffFrequency", "coordination", "botActions"}

validPlans == {"pressure", "trap", "isolate", "pot_control", "chaos"}

\* generateFallbackDecision whose loop stops one bot short
generateFallbackDecision_OneShort(gameData, easyBias) ==
    [has |-> DecisionFields,
     globalPlan |-> "pot_control",
     aggression |-> 5, bluffFrequency |-> 3, coordination |-> 6,
     botActions |->
        [i \in 1..(Len(gameData.botStacks) - 1) |->
            [botIndex |-> i - 1, actionBias |-> "call", confidence |-> 6]]]

\* generateFallbackDecision; easyBias[i] is the bias the random index picks
\* for bot i when the difficulty is EASY
generateFallbackDecision(gameData, easyBias) ==
    [has |-> DecisionFields,
     globalPlan |-> "pot_control",
     aggression |-> 5, bluffFrequency |-> 3, coordination |-> 6,
     botActions |->
        [i \in 1..Len(gameData.botStacks) |->
            [botIndex |-> i - 1,
             actionBias |-> IF gameData.difficulty = "EASY" THEN easyBias[i] ELSE "call",
             confidence |-> 6]]]

isValidBotAction(action, legalActions) ==
    /\ action.botIndex >= 0
    /\ action.confidence >= 0 /\ action.confidence <= 10
    /\ action.actionBias \in Biases
    /\ Includes(legalActions, action.actionBias)

InUnit(x) == x >= 0 /\ x <= 10

\* isValidDecision without the comparison of botIndex and position
isValidDecision_AnyIndex(decision, gameData) ==
    /\ DecisionFields \subseteq decision.has
    /\ InUnit(decision.aggression)
    /\ InUnit(decision.bluffFrequency)
    /\ InUnit(decision.coordination)
    /\ decision.globalPlan \in validPlans
    /\ Len(decision.botActions) = Len(gameData.botStacks)
    /\ \A i \in 1..Len(decision.botActions) :
        isValidBotAction(decision.botActions[i], gameData.legalActions)

isValidDecision(decision, gameData) ==
    /\ DecisionFields \subseteq decision.has
    /\ InUnit(decision.aggression)
    /\ InUnit(decision.bluffFrequency)
    /\ InUnit(decision.coordination)
    /\ decision.globalPlan \in validPlans
    /\ Len(decision.botActions) = Len(gameData.botStacks)
    /\ \A i \in 1..Len(decision.botActions) :
        /\ isValidBotAction(decision.botActions[i], gameData.legalActions)
        /\ decision.botActions[i].botIndex = i - 1

\* What callNscaleAPI resolves to. The collaborator's behaviour is
\*   "noToken"  the service token is empty: callNscaleAPI rejects
\*   "failed"   fetch rejects (network error, abort after the timeout), the
\*              status is not ok, the body is not JSON or has no
\*              choices[0].message: the catch returns generateFallbackDecision
\*   "text"     the content is not a string, or holds no parseable JSON object
\*   "json"     the content parses to the decision object payload
\* The value is [kind |-> "rejected"], or the text as what it parses to:
\* [kind |-> "unparseable"] or [kind |-> "object", decision |-> ..].
callNscaleAPI(gameData, reply, easyBias) ==
    CASE reply.kind = "noToken" -> [kind |-> "rejected"]
      [] reply.kind = "failed" ->
            [kind |-> "object", decision |-> generateFallbackDecision(gameData, easyBias)]
      [] reply.kind = "text" -> [kind |-> "unparseable"]
      [] OTHER -> [kind |-> "object", decision |-> reply.payload]

\* parseAndValidateResponse: the parsed object when it is valid; in every
\* other case the JSON *string* generateFallbackDecision returns, unparsed
parseAndValidateResponse(aiResponse, gameData) ==
    IF aiResponse.kind = "object" /\ isValidDecision(aiResponse.decision, gameData)
    THEN [kind |-> "object", decision |-> aiResponse.decision]
    ELSE [kind |-> "string"]

\* generateFallbackActions
generateFallbackActions(gs) ==
    [i \in 1..Len(gs.botStacks) |->
        [botIndex |-> i - 1,
         action |-> IF Len(gs.legalActions) > 0
                    THEN IF Includes(gs.legalActions, "call") THEN "call"
                         ELSE gs.legalActions[1]
                    ELSE "call",
         confidence |-> 5]]

\* getAIActions: the action list the promise resolves to. gs.hasRequired is
\* false when buildUserPrompt finds a required field missing (it throws).
\* A string handed to mapIntentToActions has no botActions: iterating
\* undefined throws, and the catch returns generateFallbackActions.
getAIActions(gs, reply, easyBias, rnd) ==
    IF ~gs.hasRequired THEN generateFallbackActions(gs)
    ELSE LET apiResponse == callNscaleAPI(gs, reply, easyBias)
             validated == parseAndValidateResponse(apiResponse, gs)
         IN  IF apiResponse.kind = "rejected" THEN generateFallbackActions(gs)
             ELSE IF validated.kind = "string" THEN generateFallbackActions(gs)
             ELSE mapIntentToActions(validated.decision, gs, rnd)

------------------------------------------------------------------------
\* initializeGame and resetRoundState

NewPlayer(x) ==
    [stack |-> ensureValidStack(OrDefault(x)), betInCurrentRound |-> 0,
     folded |-> FALSE, isActive |-> TRUE]

NewHuman(x, diff) ==
    [stack |-> ensureValidStack(OrDefault(x)), betInCurrentRound |-> 0,
     folded |-> FALSE, isActive |-> TRUE, difficulty |-> diff]

\* the decks the explored shuffles give
ShuffledDecks == { createShuffledDeck(draw) : draw \in ShuffleDraws }

\* the state after new PokerGameEngine(token).initializeGame(botPlayers,
\* humanPlayer), the inputs drawn from the given sets; a token of TRUE is a
\* non-blank string
InitFromWith(HumanIn, BotsIn, Diffs, Decks, Tokens) ==
    \E hIn \in HumanIn, bIn \in BotsIn, diff \in Diffs, d \in Decks :
        /\ serviceToken \in Tokens
        /\ humanPlayer = NewHuman(hIn, diff)
        /\ bots = [i \in 1..NumBots |-> NewPlayer(bIn[i])]
        /\ potSize = 0
        /\ currentRound = "preflop"
        /\ boardCards = <<>>
        /\ deck = d
        /\ startStacks = <<NewHuman(hIn, diff).stack>>
                            \o [i \in 1..NumBots |-> NewPlayer(bIn[i]).stack]
        /\ lastCall = [op |-> "initializeGame", ok |-> TRUE]
        /\ applied = <<>>
        /\ calls = 0
        /\ NoDecisionCall

\* the same, the engine built without a token
InitFrom(HumanIn, BotsIn, Diffs, Decks) ==
    InitFromWith(HumanIn, BotsIn, Diffs, Decks, {FALSE})

Init == InitFrom(StackInputs, [1..NumBots -> StackInputs], Difficulties, ShuffledDecks)

\* what initializeGame does to the engine when it accepts its arguments
InitializeGameEffect(hIn, bIn, diff, d) ==
    /\ calls < MaxCalls
    /\ humanPlayer' = NewHuman(hIn, diff)
    /\ bots' = [i \in 1..NumBots |-> NewPlayer(bIn[i])]
    /\ potSize' = 0
    /\ currentRound' = "preflop"
    /\ boardCards' = <<>>
    /\ deck' = d
    /\ startStacks' = <<NewHuman(hIn, diff).stack>>
                        \o [i \in 1..NumBots |-> NewPlayer(bIn[i]).stack]
    /\ applied' = <<>>
    /\ calls' = calls + 1
    /\ UNCHANGED <<mapperVars, aiVars>>

InitializeGame(hIn, bIn, diff, d) ==
    /\ InitializeGameEffect(hIn, bIn, diff, d)
    /\ lastCall' = [op |-> "initializeGame", ok |-> TRUE]

------------------------------------------------------------------------
\* applyAction as an engine call

\* raise amounts a caller passes: negative, zero, within and above the stacks
RaiseAmounts == {-100, 0, 100, 300}

\* what applyAction does to the engine
ApplyActionEffect(p, action, amount) ==
    LET st1 == applyAction(EngineState, p, action, amount)
    IN  /\ humanPlayer' = st1.h
        /\ bots' = st1.b
        /\ potSize' = st1.pot
        /\ UNCHANGED <<currentRound, boardCards, deck, startStacks, applied, calls>>
        /\ UNCHANGED <<mapperVars, aiVars>>

ApplyAction(p, action, amount) ==
    LET st1 == applyAction(EngineState, p, action, amount)
    IN  /\ ApplyActionEffect(p, action, amount)
        /\ lastCall' = [op |-> "applyAction",
                        ok |-> applyActionResult(st1, p, action, amount).success]

\* applyAction, the history keeping the arguments and the record returned
ApplyActionReturning(p, action, amount) ==
    LET st1 == applyAction(EngineState, p, action, amount)
    IN  /\ ApplyActionEffect(p, action, amount)
        /\ lastCall' = [op |-> "applyAction",
                        ok |-> applyActionResult(st1, p, action, amount).success,
                        p |-> p, action |-> action, amount |-> amount,
                        result |-> applyActionResult(st1, p, action, amount)]

------------------------------------------------------------------------
\* startRound and the deals

validRounds == <<"preflop", "flop", "turn", "river">>

\* round names a caller passes: the four valid ones and an invalid one
RoundArgs == Range(validRounds) \cup {"showdown"}

\* dealFlop without the burn: the first three cards go to the board
dealFlop_NoBurn(d, board) ==
    IF Len(d) < 4 THEN [ok |-> FALSE, deck |-> d, board |-> board]
    ELSE [ok |-> TRUE, deck |-> SubSeq(d, 4, Len(d)), board |-> board \o SubSeq(d, 1, 3)]

\* dealFlop: burn one, deal three. [ok, deck, board]
dealFlop(d, board) ==
    IF Len(d) < 4 THEN [ok |-> FALSE, deck |-> d, board |-> board]
    ELSE [ok |-> TRUE, deck |-> SubSeq(d, 5, Len(d)), board |-> board \o SubSeq(d, 2, 4)]

\* dealTurn that burns a card and leaves the card it deals in the deck
dealTurn_KeepsCard(d, board) ==
    IF Len(d) < 2 THEN [ok |-> FALSE, deck |-> d, board |-> board]
    ELSE [ok |-> TRUE, deck |-> SubSeq(d, 2, Len(d)), board |-> board \o <<d[2]>>]

\* dealTurn: burn one, deal one
dealTurn(d, board) ==
    IF Len(d) < 2 THEN [ok |-> FALSE, deck |-> d, board |-> board]
    ELSE [ok |-> TRUE, deck |-> SubSeq(d, 3, Len(d)), board |-> board \o <<d[2]>>]

\* dealRiver: burn one, deal one
dealRiver(d, board) ==
    IF Len(d) < 2 THEN [ok |-> FALSE, deck |-> d, board |-> board]
    ELSE [ok |-> TRUE, deck |-> SubSeq(d, 3, Len(d)), board |-> board \o <<d[2]>>]

\* the deal startRound makes for (round, board as passed)
dealFor(round, d, board) ==
    IF round = "flop" /\ Len(board) = 0 THEN dealFlop(d, board)
    ELSE IF round = "turn" /\ Len(board) = 3 THEN dealTurn(d, board)
    ELSE IF round = "river" /\ Len(board) = 4 THEN dealRiver(d, board)
    ELSE [ok |-> TRUE, deck |-> d, board |-> board]

\* the bet reset that skips folded actors
resetBets_UnfoldedOnly(st) ==
    [st EXCEPT !.h.betInCurrentRound = IF st.h.folded THEN @ ELSE 0,
               !.b = [i \in 1..Len(st.b) |->
                        [st.b[i] EXCEPT !.betInCurrentRound =
                                            IF st.b[i].folded THEN @ ELSE 0]]]

resetBets(st) ==
    [st EXCEPT !.h.betInCurrentRound = 0,
               !.b = [i \in 1..Len(st.b) |-> [st.b[i] EXCEPT !.betInCurrentRound = 0]]]

\* board texture is not read by any decision of the model
buildGameStateForAI(st, playerAction, playerBetSize) ==
    [difficulty |-> st.h.difficulty,
     potSize |-> st.pot,
     playerBetSize |-> playerBetSize,
     botStacks |-> [i \in 1..Len(st.b) |-> st.b[i].stack],
     legalActions |-> getLegalActions,
     hasRequired |-> TRUE]

\* most getAIActions calls in flight at once, and most abort timers pending
MaxPending == 2

\* the round state a request is built from and bot actions are applied to
RoundState ==
    [round |-> currentRound, pot |-> potSize,
     bets |-> [i \in 1..Len(AllPlayers) |-> AllPlayers[i].betInCurrentRound]]

\* every action list getAIActions can resolve to, over the random draws
getAIActionsOutcomes(gs, reply) ==
    { getAIActions(gs, reply, easyBias, rnd) :
        easyBias \in [1..Len(gs.botStacks) -> Biases],
        rnd \in [1..Len(gs.botStacks) -> BOOLEAN] }

\* nothing was asked of the collaborator
NotAsked == [kind |-> "notAsked"]

\* where getAIActions(gs) stands when it hands back its promise. When
\* buildUserPrompt throws for a missing field, the catch has answered
\* generateFallbackActions before any await: the call is over and only the
\* continuation of the method that awaits it is queued ("resuming"). When
\* callNscaleAPI throws for want of a token, no timer is set and nothing is
\* fetched, and the continuation of getAIActions is queued ("settling").
\* With a token setTimeout and fetch have been called ("awaitFetch").
pcAfterCall(gs) ==
    IF ~gs.hasRequired THEN "resuming"
    ELSE IF ~serviceToken THEN "settling"
    ELSE "awaitFetch"

\* the call can be made with this reply: a call is answered with noToken
\* exactly when the module has no token; bounds of the model
CanCall(gs, reply) ==
    /\ (reply.kind = "noToken") <=> ~serviceToken
    /\ Len(aiCalls) < MaxPending
    /\ pcAfterCall(gs) = "awaitFetch" => timers < MaxPending

\* this.aiDecision.getAIActions(gs) is called for getBotStrategicIntent
\* (kind "intent") or getBotStrategicResponses (kind "responses"), or by a
\* caller of the decision module (kind "direct"), and runs up to its first
\* await, or to its end when buildUserPrompt throws; built is the round
\* state gs was built from
CallGetAIActions(kind, gs, reply, built) ==
    LET pc == pcAfterCall(gs)
        c == [kind |-> kind, gs |-> gs, reply |-> reply, pc |-> pc,
              built |-> built, actions |-> <<>>]
    IN  /\ UNCHANGED serviceToken
        /\ timers' = IF pc = "awaitFetch" THEN timers + 1 ELSE timers
        /\ IF pc = "resuming"
           THEN \E aiActions \in getAIActionsOutcomes(gs, NotAsked) :
                    /\ aiIn' = [gs |-> gs, reply |-> NotAsked]
                    /\ aiOut' = [actions |-> aiActions]
                    /\ aiCalls' = IF kind = "direct" THEN aiCalls
                                  ELSE Append(aiCalls, [c EXCEPT !.reply = NotAsked,
                                                                 !.actions = aiActions])
           ELSE /\ aiCalls' = Append(aiCalls, c)
                /\ UNCHANGED <<aiIn, aiOut>>

\* communityCards arguments a caller passes: none (the default []), the
\* engine's own board, and boards of 3 and 4 cards of the caller's own
CommunityArgs ==
    { <<>>, boardCards, SubSeq(OrderedDeck, 1, 3), SubSeq(OrderedDeck, 1, 4) }

\* which deal startRound makes for (round, board as passed), "none" if none
dealKind(round, board) ==
    IF round = "flop" /\ Len(board) = 0 THEN "flop"
    ELSE IF round = "turn" /\ Len(board) = 3 THEN "turn"
    ELSE IF round = "river" /\ Len(board) = 4 THEN "river"
    ELSE "none"

\* startRound up to `await this.aiDecision.getAIActions(gameState)` in
\* getBotStrategicIntent. An invalid round throws before any assignment; a
\* deal that throws leaves the assignments made before it; in both cases no
\* advisory call is made. reply is what the collaborator does with the call.
StartRoundEffect(round, communityCards, reply) ==
    /\ UNCHANGED <<startStacks, applied, mapperVars>>
    /\ IF round \notin Range(validRounds)
       THEN /\ lastCall' = [op |-> "startRound", ok |-> FALSE, deal |-> "none"]
            /\ UNCHANGED <<humanPlayer, bots, potSize, currentRound, boardCards, deck>>
            /\ UNCHANGED aiVars
       ELSE LET st1 == resetBets(updatePotSize(EngineState))
                dl == dealFor(round, deck, communityCards)
                gs == buildGameStateForAI(st1, "CHECK", 0)
            IN  /\ currentRound' = round
                /\ humanPlayer' = st1.h
                /\ bots' = st1.b
                /\ potSize' = st1.pot
                /\ boardCards' = dl.board
                /\ deck' = dl.deck
                /\ lastCall' = [op |-> "startRound", ok |-> dl.ok,
                                deal |-> dealKind(round, communityCards)]
                /\ IF dl.ok
                   THEN /\ CanCall(gs, reply)
                        /\ CallGetAIActions("intent", gs, reply, RoundState')
                   ELSE UNCHANGED aiVars

StartRound(round, communityCards, reply) ==
    /\ calls < MaxCalls
    /\ calls' = calls + 1
    /\ StartRoundEffect(round, communityCards, reply)

\* startRound where the number of calls is not limited
StartRoundAnyTime(round, communityCards, reply) ==
    /\ UNCHANGED calls
    /\ StartRoundEffect(round, communityCards, reply)

------------------------------------------------------------------------
\* validateAction, processHumanAction and the bot responses

defaultMinRaise == 10

\* calculateMinRaise that asks for the call amount only, not twice it
calculateMinRaise_NotDoubled(st) ==
    LET callAmount == calculateCallAmount(st, Human)
    IN  IF callAmount > 0 THEN callAmount ELSE defaultMinRaise

calculateMinRaise(st) ==
    LET callAmount == calculateCallAmount(st, Human)
    IN  IF callAmount > 0 THEN callAmount + callAmount ELSE defaultMinRaise

\* validateAction without the check that the player is still in the hand
validateAction_IgnoresFolded(st, p, action, amount) ==
    LET pl == GetP(st, p)
    IN  /\ Includes(getLegalActions, action)
        /\ action = "raise" =>
            /\ amount > 0
            /\ pl.stack >= amount
            /\ amount >= calculateMinRaise(st)

\* validateAction without the checks of the raise amount
validateAction_AnyAmount(st, p, action, amount) ==
    LET pl == GetP(st, p)
    IN  /\ pl.isActive /\ ~pl.folded
        /\ Includes(getLegalActions, action)

\* validation.valid
validateAction(st, p, action, amount) ==
    LET pl == GetP(st, p)
    IN  /\ pl.isActive /\ ~pl.folded
        /\ Includes(getLegalActions, action)
        /\ action = "raise" =>
            /\ amount > 0
            /\ pl.stack >= amount
            /\ amount >= calculateMinRaise(st)

\* the fallback that calls whatever the stack
getFallbackAction_AlwaysCall(st, p) == "call"

\* the getFallbackAction(bot) in force: the class defines the method twice
\* and the later definition replaces the earlier one
getFallbackAction(st, p) ==
    IF GetP(st, p).stack >= calculateCallAmount(st, p) THEN "call" ELSE "fold"

RECURSIVE applyBotActions(_, _, _)
\* the loop of getBotStrategicResponses over aiActions from index k on:
\* [st |-> the state it leaves, log |-> the actions applied, each with the
\* bot's flags, stack and amount owed when it was applied and with what
\* validateAction said of the suggested action]
applyBotActions(st, aiActions, k) ==
    IF k > Len(aiActions) THEN [st |-> st, log |-> <<>>]
    ELSE LET idx == aiActions[k].botIndex + 1
             present == idx \in 1..Len(st.b)
             acts == present /\ st.b[idx].isActive /\ ~st.b[idx].folded
             valid == acts /\ validateAction(st, idx, aiActions[k].action, 0)
             action == IF valid THEN aiActions[k].action ELSE getFallbackAction(st, idx)
             st1 == IF acts THEN applyAction(st, idx, action, 0) ELSE st
             rest == applyBotActions(st1, aiActions, k + 1)
             entry == [botIndex |-> idx - 1, action |-> action,
                       suggested |-> aiActions[k].action,
                       valid |-> valid,
                       isActive |-> st.b[idx].isActive,
                       folded |-> st.b[idx].folded,
                       stackBefore |-> st.b[idx].stack,
                       owedBefore |-> calculateCallAmount(st, idx)]
         IN  [st |-> rest.st,
              log |-> IF acts THEN <<entry>> \o rest.log ELSE rest.log]

\* processHumanAction that applies the human's action before validating it
ProcessHumanAction_ApplyFirst(action, amount, reply) ==
    LET st1 == applyAction(EngineState, Human, action, amount)
        gs == buildGameStateForAI(st1, action, amount)
    IN  /\ UNCHANGED <<currentRound, boardCards, deck, startStacks, calls, applied,
                       mapperVars>>
        /\ humanPlayer' = st1.h
        /\ bots' = st1.b
        /\ potSize' = st1.pot
        /\ IF ~validateAction(EngineState, Human, action, amount)
           THEN /\ lastCall' = [op |-> "processHumanAction", ok |-> FALSE]
                /\ UNCHANGED aiVars
           ELSE /\ CanCall(gs, reply)
                /\ CallGetAIActions("responses", gs, reply, RoundState')
                /\ lastCall' = [op |-> "processHumanAction", ok |-> TRUE]

\* processHumanAction(action, amount) up to
\* `await this.aiDecision.getAIActions(gameState)` in
\* getBotStrategicResponses: the human's action is validated and applied
\* and the advisory call is made; the bot loop runs when the call settles.
\* reply is what the collaborator does with the call.
ProcessHumanAction(action, amount, reply) ==
    /\ UNCHANGED <<currentRound, boardCards, deck, startStacks, calls, applied,
                   mapperVars>>
    /\ IF ~validateAction(EngineState, Human, action, amount)
       THEN /\ lastCall' = [op |-> "processHumanAction", ok |-> FALSE]
            /\ UNCHANGED <<humanPlayer, bots, potSize, aiVars>>
       ELSE LET st1 == applyAction(EngineState, Human, action, amount)
                gs == buildGameStateForAI(st1, action, amount)
            IN  /\ CanCall(gs, reply)
                /\ humanPlayer' = st1.h
                /\ bots' = st1.b
                /\ potSize' = st1.pot
                /\ CallGetAIActions("responses", gs, reply, RoundState')
                /\ lastCall' = [op |-> "processHumanAction", ok |-> TRUE]

\* call k of aiCalls leaves the list
RemoveCall(k) ==
    SubSeq(aiCalls, 1, k - 1) \o SubSeq(aiCalls, k + 1, Len(aiCalls))

\* call k goes to the end of the list as c: its next job was queued last
Requeue(k, c) == Append(RemoveCall(k), c)

\* the pcs of a call whose next job is in the microtask queue: "settling",
\* the continuation of getAIActions after `await this.callNscaleAPI(...)`;
\* "resuming", the continuation of the engine method after
\* `await this.aiDecision.getAIActions(gameState)`
QueuedPcs == {"settling", "resuming"}

\* a job is queued: no IO event or timer is handled before the queue is empty
Settling == \E i \in 1..Len(aiCalls) : aiCalls[i].pc \in QueuedPcs

\* the call whose job is at the head of the microtask queue
HeadJob ==
    CHOOSE i \in 1..Len(aiCalls) :
        /\ aiCalls[i].pc \in QueuedPcs
        /\ \A j \in 1..(i - 1) : aiCalls[j].pc \notin QueuedPcs

\* callNscaleAPI of call k has settled, the collaborator having done reply:
\* the continuation of getAIActions is queued
CallSettles(k, reply) ==
    /\ aiCalls' = Requeue(k, [aiCalls[k] EXCEPT !.pc = "settling", !.reply = reply])
    /\ UNCHANGED <<serviceToken, aiIn, aiOut, engineVars, mapperVars>>

\* the job at the head of the queue is the continuation of getAIActions:
\* the call resolves to its action list (the catch answers
\* generateFallbackActions when callNscaleAPI threw). The continuation of
\* the engine method that awaits the call is queued; a direct call is over.
Continue ==
    /\ Settling
    /\ aiCalls[HeadJob].pc = "settling"
    /\ LET k == HeadJob
           c == aiCalls[k]
       IN  /\ aiIn' = [gs |-> c.gs, reply |-> c.reply]
           /\ \E aiActions \in getAIActionsOutcomes(c.gs, c.reply) :
                /\ aiOut' = [actions |-> aiActions]
                /\ aiCalls' = IF c.kind = "direct" THEN RemoveCall(k)
                              ELSE Requeue(k, [c EXCEPT !.pc = "resuming",
                                                        !.actions = aiActions])
    /\ UNCHANGED <<serviceToken, timers, engineVars, mapperVars>>

\* the job at the head of the queue is the continuation of the engine
\* method: getBotStrategicResponses applies the actions to the bots as they
\* are now, getBotStrategicIntent drops them
Resume ==
    /\ Settling
    /\ aiCalls[HeadJob].pc = "resuming"
    /\ LET k == HeadJob
           c == aiCalls[k]
       IN  /\ aiCalls' = RemoveCall(k)
           /\ IF c.kind = "responses"
              THEN LET res == applyBotActions(EngineState, c.actions, 1)
                   IN  /\ humanPlayer' = res.st.h
                       /\ bots' = res.st.b
                       /\ potSize' = res.st.pot
                       /\ applied' = res.log
                       /\ lastCall' = [op |-> "getBotStrategicResponses", ok |-> TRUE]
              ELSE /\ UNCHANGED <<humanPlayer, bots, potSize, applied>>
                   /\ lastCall' = [op |-> "getBotStrategicIntent", ok |-> TRUE]
    /\ UNCHANGED <<currentRound, boardCards, deck, startStacks, calls, mapperVars,
                   serviceToken, aiIn, aiOut, timers>>

\* `await fetch(...)` of call k rejects; the catch of callNscaleAPI calls
\* clearTimeout(30000), which is no timer's id: the timer stays pending
FetchRejects(k) ==
    /\ ~Settling
    /\ k \in 1..Len(aiCalls)
    /\ aiCalls[k].pc = "awaitFetch"
    /\ aiCalls[k].reply.kind = "failed"
    /\ CallSettles(k, aiCalls[k].reply)
    /\ UNCHANGED timers

\* `await fetch(...)` of call k resolves: clearTimeout(timeoutId); a status
\* that is not ok throws, else res.json() is awaited
HeadersArrive(k, statusOk) ==
    /\ ~Settling
    /\ k \in 1..Len(aiCalls)
    /\ aiCalls[k].pc = "awaitFetch"
    /\ timers' = timers - 1
    /\ IF statusOk
       THEN /\ aiCalls' = [aiCalls EXCEPT ![k].pc = "awaitBody"]
            /\ UNCHANGED <<serviceToken, aiIn, aiOut, engineVars, mapperVars>>
       ELSE CallSettles(k, [kind |-> "failed"])

\* `await res.json()` of call k settles and callNscaleAPI returns
BodyArrives(k) ==
    /\ ~Settling
    /\ k \in 1..Len(aiCalls)
    /\ aiCalls[k].pc = "awaitBody"
    /\ CallSettles(k, aiCalls[k].reply)
    /\ UNCHANGED timers

\* timers whose call is no longer waiting for fetch
LateTimers == timers - Cardinality({i \in 1..Len(aiCalls) : aiCalls[i].pc = "awaitFetch"})

\* the 30 s timer of call k fires while fetch is pending: controller.abort()
\* rejects the fetch
TimerFires(k) ==
    /\ ~Settling
    /\ k \in 1..Len(aiCalls)
    /\ aiCalls[k].pc = "awaitFetch"
    /\ timers' = timers - 1
    /\ CallSettles(k, [kind |-> "failed"])

\* a timer left behind by a rejected fetch fires: abort() of a finished fetch
LateTimerFires ==
    /\ ~Settling
    /\ LateTimers > 0
    /\ timers' = timers - 1
    /\ UNCHANGED <<serviceToken, aiCalls, aiIn, aiOut, engineVars, mapperVars>>

\* the step is a queued job, Continue or Resume, not a call of the caller
JobRan ==
    /\ Settling
    /\ aiCalls' # aiCalls
    /\ Len(aiCalls') <= Len(aiCalls)

\* the step is a call of the engine method op by the caller
Called(op) == lastCall'.op = op /\ ~JobRan

\* the step is a processHumanAction call that was accepted
HumanActionAccepted ==
    /\ Len(aiCalls') = Len(aiCalls) + 1
    /\ aiCalls'[Len(aiCalls')].kind = "responses"

\* the step is the bot loop of getBotStrategicResponses
BotResponsesApplied ==
    \E k \in 1..Len(aiCalls) :
        /\ aiCalls[k].kind = "responses"
        /\ aiCalls[k].pc = "resuming"
        /\ aiCalls' = RemoveCall(k)

\* an engine built without a service token: every advisory call fails
\* before its first await
NoToken == [kind |-> "noToken"]

------------------------------------------------------------------------
\* Inputs of the decision module

\* legal-action lists: every list without repetition over fold, call, raise
LegalLists ==
    { s \in UNION { [1..n -> Biases] : n \in 0..Cardinality(Biases) } :
        \A i, j \in 1..Len(s) : s[i] = s[j] => i = j }

Confidences == {2, 6, 10}
PotSizes == {0, 100}
BetSizes == {0, 40, 100}

MapperInputs ==
    [botAction : [botIndex : {0}, actionBias : Biases, confidence : Confidences],
     gs : [legalActions : LegalLists, difficulty : Difficulties,
           potSize : PotSizes, playerBetSize : BetSizes]]

\* a well-formed payload for n bots, every bot with the same bias
GoodPayload(n, bias) ==
    [has |-> DecisionFields, globalPlan |-> "pressure",
     aggression |-> 7, bluffFrequency |-> 2, coordination |-> 9,
     botActions |-> [i \in 1..n |-> [botIndex |-> i - 1, actionBias |-> bias,
                                     confidence |-> 7]]]

\* payloads that deviate from the format in one respect
BadPayloads(n) ==
    LET g == GoodPayload(n, "raise")
    IN  { [g EXCEPT !.has = @ \ {"coordination"}],
          [g EXCEPT !.has = @ \ {"botActions"}],
          [g EXCEPT !.aggression = 11],
          [g EXCEPT !.globalPlan = "bluff"],
          [g EXCEPT !.botActions = SubSeq(@, 1, n - 1)],
          [g EXCEPT !.botActions = @ \o <<[botIndex |-> n, actionBias |-> "raise",
                                           confidence |-> 7]>>],
          [g EXCEPT !.botActions[1].botIndex = 1],
          [g EXCEPT !.botActions[n].actionBias = "check"],
          [g EXCEPT !.botActions[n].confidence = 11] }

\* what the collaborator may do, for a game with n bots
Replies(n) ==
    { [kind |-> "noToken"], [kind |-> "failed"], [kind |-> "text"] }
    \cup { [kind |-> "json", payload |-> pl] :
            pl \in { GoodPayload(n, b) : b \in Biases } \cup BadPayloads(n) }

\* the collaborator is unavailable, or its payload is unparseable or invalid
IsAdvisoryFailure(gs, reply) ==
    reply.kind # "json" \/ ~isValidDecision(reply.payload, gs)

BotStackValues == {0, 100}

AdvisoryGameStates ==
    UNION { [difficulty : Difficulties, potSize : PotSizes, playerBetSize : BetSizes,
             botStacks : [1..n -> BotStackValues],
             legalActions : {getLegalActions}, hasRequired : BOOLEAN] : n \in 1..NumBots }

------------------------------------------------------------------------
\* Specifications

\* applyAction calls only, on a freshly initialized hand
\* (the amount is read by a raise only)
AnyApplyAction ==
    \/ \E p \in Players, action \in ActionNames \ {"raise"} : ApplyAction(p, action, 0)
    \/ \E p \in Players, amount \in RaiseAmounts : ApplyAction(p, "raise", amount)

NextBetting == AnyApplyAction

SpecBetting == Init /\ [][NextBetting]_vars

\* every bot is given 100
EqualStacks == { [i \in 1..NumBots |-> Num(100)] }

\* one hand: a fresh hand (one difficulty, one shuffle), applyAction calls,
\* and startRound calls that advance the street and pass the engine's own board
InitHand == InitFrom(StackInputs, EqualStacks, {"NORMAL"}, {OrderedDeck})

NextStreet(round) ==
    CASE round = "preflop" -> "flop"
      [] round = "flop" -> "turn"
      [] round = "turn" -> "river"
      [] OTHER -> "river"

NextHand ==
    \/ /\ currentRound # "river"
       /\ StartRound(NextStreet(currentRound), boardCards, NoToken)
    \/ Continue
    \/ Resume
    \/ AnyApplyAction

SpecHand == InitHand /\ [][NextHand]_vars

\* initializeGame and startRound calls with any arguments

InitStreets == InitFrom({Num(100)}, EqualStacks, {"NORMAL"}, ShuffledDecks)

NextStreets ==
    \/ \E d \in ShuffledDecks : InitializeGame(Num(100), [i \in 1..NumBots |-> Num(100)], "NORMAL", d)
    \/ \E round \in RoundArgs, cc \in CommunityArgs : StartRound(round, cc, NoToken)
    \/ Continue
    \/ Resume

SpecStreets == InitStreets /\ [][NextStreets]_vars

------------------------------------------------------------------------
\* Properties

\* chips that have left the stacks since initializeGame
Contributed == SumSeq(startStacks) - SumSeq([i \in 1..Len(AllPlayers) |-> AllPlayers[i].stack])

\* the actors that are active and not folded (human or bot)
ActiveUnfolded == { p \in Players : Player(p).isActive /\ ~Player(p).folded }

\* the highest currentRoundBet among the active, unfolded actors
HighestActiveBet ==
    LET bs == { Player(p).betInCurrentRound : p \in ActiveUnfolded }
    IN  IF bs = {} THEN 0 ELSE CHOOSE m \in bs : \A x \in bs : x <= m

\* C1: with no street change, after any sequence of applyAction calls the pot
\* equals the chips removed from all stacks since the hand started, and no
\* stack is negative.
C1_PotEqualsChipsRemoved ==
    /\ potSize = Contributed
    /\ \A p \in Players : Player(p).stack >= 0

\* C1 witness: a raise above the stack was applied as an all-in, another actor
\* has called part of it and a third has folded
C1_Witness ==
    /\ lastCall.op = "applyAction"
    /\ \E p \in Players : Player(p).stack = 0 /\ Player(p).betInCurrentRound = 200
    /\ \E p \in Players : Player(p).stack = 0 /\ Player(p).betInCurrentRound = 100
    /\ \E p \in Players : Player(p).folded
    /\ potSize = 300

\* C2: in every reachable state of a hand, street transitions included, the
\* pot equals the sum over all actors of initial stack minus current stack.
C2_PotIsAllTimeContributions == potSize = Contributed

\* C7: the round-complete checks return false whenever at least two actors
\* are active and unfolded and one of them is below the highest bet with a
\* positive stack.
C7_IncompleteWhileSomeoneOwes ==
    ( /\ Cardinality(ActiveUnfolded) >= 2
      /\ \E p \in ActiveUnfolded :
            /\ Player(p).betInCurrentRound < HighestActiveBet
            /\ Player(p).stack > 0 )
    => ( /\ ~isRoundComplete(EngineState)
         /\ ~isBettingRoundComplete(EngineState) )

\* C8: the round-complete checks return true whenever all active, unfolded
\* actors have equal currentRoundBet, whatever the folded actors' bets are.
C8_CompleteWhenActiveBetsEqual ==
    (\A p, q \in ActiveUnfolded :
        Player(p).betInCurrentRound = Player(q).betInCurrentRound)
    => ( /\ isRoundComplete(EngineState)
         /\ isBettingRoundComplete(EngineState) )

\* C9: isHandComplete is true exactly when at most one actor, human or bot,
\* is active and unfolded.
C9_HandCompleteIffAtMostOneActor ==
    isHandComplete(EngineState) <=> (Cardinality(ActiveUnfolded) <= 1)

\* C10: the board holds 0 cards preflop, 3 on the flop, 4 on the turn and 5
\* on the river, after any sequence of initializeGame and startRound calls.
C10_BoardLengthMatchesStreet ==
    Len(boardCards) = CASE currentRound = "preflop" -> 0
                        [] currentRound = "flop" -> 3
                        [] currentRound = "turn" -> 4
                        [] currentRound = "river" -> 5
                        [] OTHER -> -1

DetermineConcreteAction(r03) ==
    /\ mapOut = NoValue
    /\ mapOut' = determineConcreteAction(mapIn.botAction, mapIn.gs, r03)
    /\ UNCHANGED <<mapIn, engineVars, aiVars>>

\* the engine as its constructor leaves it: no game yet
EngineConstructed ==
    /\ humanPlayer = NoValue
    /\ bots = <<>>
    /\ potSize = 0
    /\ currentRound = "null"
    /\ boardCards = <<>>
    /\ deck = <<>>
    /\ startStacks = <<>>
    /\ lastCall = [op |-> "constructor", ok |-> TRUE]
    /\ applied = <<>>
    /\ calls = 0

\* determineConcreteAction applied to every input, under every random draw
InitMapper ==
    /\ EngineConstructed
    /\ mapIn \in MapperInputs
    /\ mapOut = NoValue
    /\ aiIn = NoValue
    /\ aiOut = NoValue
    /\ aiCalls = <<>>
    /\ timers = 0
    /\ serviceToken = FALSE

NextMapper == \E r03 \in BOOLEAN : DetermineConcreteAction(r03)

SpecMapper == InitMapper /\ [][NextMapper]_vars

\* engine-driven play of one hand, the caller waiting for each call to
\* return before the next: processHumanAction calls with an advisory that
\* fails in any way (and, with a token, startRound calls whose advisory call
\* is rejected or times out) and startRound calls that advance the street
PlayReplies == { [kind |-> "noToken"], [kind |-> "failed"], [kind |-> "text"] }

NextPlay ==
    \/ /\ aiCalls = <<>>
       /\ \/ \E action \in ActionNames \ {"raise"}, reply \in PlayReplies :
                ProcessHumanAction(action, 0, reply)
          \/ \E amount \in RaiseAmounts, reply \in PlayReplies :
                ProcessHumanAction("raise", amount, reply)
          \/ /\ currentRound # "river"
             /\ \E reply \in {NoToken, [kind |-> "failed"]} :
                    StartRound(NextStreet(currentRound), boardCards, reply)
    \/ Continue
    \/ Resume
    \/ \E k \in 1..MaxPending : FetchRejects(k)
    \/ \E k \in 1..MaxPending, statusOk \in BOOLEAN : HeadersArrive(k, statusOk)
    \/ \E k \in 1..MaxPending : BodyArrives(k)
    \/ \E k \in 1..MaxPending : TimerFires(k)
    \/ LateTimerFires

\* the hand played: the human and the bots start with 200, bot 0 with 100
PlayStacks == { [i \in 1..NumBots |-> IF i = 1 THEN Num(100) ELSE Num(200)] }

InitPlay ==
    InitFromWith({Num(200)}, PlayStacks, {"EASY", "NORMAL"}, {OrderedDeck}, BOOLEAN)

SpecPlay == InitPlay /\ [][NextPlay]_vars

\* getAIActions(gs) called from outside the engine, up to its first await,
\* or to its end when gs lacks a required field; one call in a behaviour
GetAIActions(gs, reply) ==
    /\ aiCalls = <<>>
    /\ aiOut = NoValue
    /\ timers = 0
    /\ CanCall(gs, reply)
    /\ CallGetAIActions("direct", gs, reply, NoValue)
    /\ UNCHANGED <<engineVars, mapperVars>>

\* One getAIActions call step by step, the collaborator free to answer, to
\* fail at any stage, or to stay silent. The call's reply is what the
\* collaborator sends if it does answer; a "failed" reply can show as a
\* rejected fetch, as a status that is not ok, or as a body that is not the
\* expected JSON.
InitAsync ==
    /\ EngineConstructed
    /\ mapIn = NoValue
    /\ mapOut = NoValue
    /\ aiIn = NoValue
    /\ aiOut = NoValue
    /\ aiCalls = <<>>
    /\ timers = 0
    /\ serviceToken \in BOOLEAN

NextAsync ==
    \/ /\ aiCalls = <<>>
       /\ aiOut = NoValue
       /\ \E gs \in AdvisoryGameStates, reply \in Replies(NumBots) :
            /\ reply \in Replies(Len(gs.botStacks))
            /\ GetAIActions(gs, reply)
    \/ Continue
    \/ \E k \in 1..MaxPending : FetchRejects(k)
    \/ \E k \in 1..MaxPending, statusOk \in BOOLEAN : HeadersArrive(k, statusOk)
    \/ \E k \in 1..MaxPending : BodyArrives(k)
    \/ \E k \in 1..MaxPending : TimerFires(k)
    \/ LateTimerFires

\* the runtime runs the queued continuations and fires a pending timer;
\* nothing obliges the collaborator to answer
SpecAsync ==
    /\ InitAsync
    /\ [][NextAsync]_vars
    /\ WF_vars(Continue)
    /\ WF_vars(\E k \in 1..MaxPending : TimerFires(k))

\* C3: for every bias, non-empty legal-action list, difficulty and pot/bet
\* size, the action determineConcreteAction returns is in the legal list.
C3_MapperReturnsLegalAction ==
    (mapOut # NoValue /\ Len(mapIn.gs.legalActions) > 0)
    => Includes(mapIn.gs.legalActions, mapOut.action)

\* C4: on a failed or invalid advisory outcome getAIActions returns one
\* action per bot index 0..N-1, each legal, and no raise for an empty stack.
C4_FallbackActionsLegalNoRaiseOnEmptyStack ==
    (aiOut # NoValue /\ IsAdvisoryFailure(aiIn.gs, aiIn.reply))
    => /\ Len(aiOut.actions) = Len(aiIn.gs.botStacks)
       /\ \A i \in 1..Len(aiOut.actions) :
            /\ aiOut.actions[i].botIndex = i - 1
            /\ Includes(aiIn.gs.legalActions, aiOut.actions[i].action)
            /\ aiIn.gs.botStacks[i] = 0 => aiOut.actions[i].action # "raise"

\* the fallback policy: call if the stack covers the amount owed, else fold
FallbackPolicy(stack, owed) == IF stack >= owed THEN "call" ELSE "fold"

\* C5: when the advisory collaborator is unavailable or its payload invalid,
\* the action applied to each active bot is call if its stack covers the
\* amount owed and fold otherwise, for every difficulty.
C5_AdvisoryFailureAppliesFallbackPolicy ==
    ( /\ lastCall = [op |-> "getBotStrategicResponses", ok |-> TRUE]
      /\ IsAdvisoryFailure(aiIn.gs, aiIn.reply) )
    => \A k \in 1..Len(applied) :
        applied[k].action = FallbackPolicy(applied[k].stackBefore, applied[k].owedBefore)

\* C6: every getAIActions call eventually settles by returning an action
\* list, whatever the collaborator does (answers, fails, never answers, or
\* sends the headers and then stalls on the body). The runtime is fair to the
\* call's own code and to a pending timer; the collaborator owes nothing.
\* One call is made in a behaviour: no call is in flight, again and again.
C6_EventuallyReturns == []<>(aiCalls = <<>>)

------------------------------------------------------------------------
\* Streets and the deck

\* the street that follows in a hand; the river has none
IsNextStreet(from, to) ==
    \/ from = "preflop" /\ to = "flop"
    \/ from = "flop" /\ to = "turn"
    \/ from = "turn" /\ to = "river"

\* C11: within one hand every startRound call that is accepted moves the
\* street exactly one step along preflop, flop, turn, river: never
\* backwards, never to the same street, never past a street.
C11_StreetAdvancesOneStep ==
    [][(Called("startRound") /\ lastCall'.ok)
        => IsNextStreet(currentRound, currentRound')]_vars

\* outcomes of the random draws of one shuffle, a family wide enough to give
\* decks that differ in every position: j = (a * floor(i / 2) + b) mod (i + 1)
DrawFactors == 0..5

WideShuffleDraws ==
    { [i \in 1..(Len(OrderedDeck) - 1) |-> (a * (i \div 2) + b) % (i + 1)] :
        a \in DrawFactors, b \in DrawFactors }

WideShuffledDecks == { createShuffledDeck(draw) : draw \in WideShuffleDraws }

\* initializeGame calls only, each with a deck createShuffledDeck can return
InitShuffle == InitFrom({Num(100)}, EqualStacks, {"NORMAL"}, WideShuffledDecks)

NextShuffle ==
    \E hIn \in StackInputs, d \in WideShuffledDecks :
        InitializeGame(hIn, [i \in 1..NumBots |-> Num(100)], "NORMAL", d)

SpecShuffle == InitShuffle /\ [][NextShuffle]_vars

\* the canonical 52-card set: every {suit, rank} pair
CanonicalCards == [suit : Range(Suits), rank : Range(Ranks)]

\* C12: every deck createShuffledDeck returns holds exactly 52 cards, each
\* of the 4 x 13 suit/rank pairs exactly once.
C12_DeckIsPermutation ==
    lastCall.op = "initializeGame"
    => /\ Len(deck) = 52
       /\ { Card(deck[k]) : k \in 1..Len(deck) } = CanonicalCards
       /\ \A i, j \in 1..Len(deck) : deck[i] = deck[j] => i = j

\* C12 witness: a second initializeGame has run and its shuffle moved both
\* the first and the last card of the ordered deck
C12_Witness ==
    /\ lastCall.op = "initializeGame"
    /\ calls > 0
    /\ deck[1] # OrderedDeck[1]
    /\ deck[Len(deck)] # OrderedDeck[Len(OrderedDeck)]

\* startRound calls without limit, with any arguments, until the deck runs out
InitDeck == InitFrom({Num(100)}, EqualStacks, {"NORMAL"}, ShuffledDecks)

NextDeck ==
    \/ \E round \in RoundArgs, cc \in CommunityArgs : StartRoundAnyTime(round, cc, NoToken)
    \/ Continue
    \/ Resume

SpecDeck == InitDeck /\ [][NextDeck]_vars

\* s is what is left of t after cards were taken from its front
IsSuffix(s, t) ==
    /\ Len(s) <= Len(t)
    /\ s = SubSeq(t, Len(t) - Len(s) + 1, Len(t))

\* C13: a flop deal takes exactly 4 cards from the front of the deck (1 burn,
\* then 3 to the board) and needs 4; a turn or river deal takes exactly 2
\* (1 burn, then 1 to the board) and needs 2; with fewer cards the deal
\* fails and no card is removed; a startRound that deals nothing leaves the deck.
C13_DealsBurnOneAndTakeFromFront ==
    [][Called("startRound") =>
        CASE lastCall'.deal = "flop" ->
                IF Len(deck) >= 4
                THEN /\ lastCall'.ok
                     /\ deck' = SubSeq(deck, 5, Len(deck))
                     /\ boardCards' = SubSeq(deck, 2, 4)
                ELSE ~lastCall'.ok /\ deck' = deck
          [] lastCall'.deal \in {"turn", "river"} ->
                IF Len(deck) >= 2
                THEN /\ lastCall'.ok
                     /\ deck' = SubSeq(deck, 3, Len(deck))
                     /\ Len(boardCards') = (IF lastCall'.deal = "turn" THEN 4 ELSE 5)
                     /\ boardCards'[Len(boardCards')] = deck[2]
                ELSE ~lastCall'.ok /\ deck' = deck
          [] OTHER -> deck' = deck]_vars

\* C13 witness: a flop deal was asked for with 2 cards left and failed
C13_Witness ==
    /\ lastCall = [op |-> "startRound", ok |-> FALSE, deal |-> "flop"]
    /\ Len(deck) = 2

\* C18: a startRound that fails (invalid street name, or too few cards to
\* burn and deal) leaves the street, the board, the pot, every bet and the
\* deck exactly as they were before the call.
C18_FailedStartRoundChangesNothing ==
    [][(Called("startRound") /\ ~lastCall'.ok)
        => UNCHANGED <<currentRound, boardCards, potSize, humanPlayer, bots, deck>>]_vars

\* one or more hands, the caller passing the engine's own board to startRound
InitOwnBoard == InitFrom({Num(100)}, EqualStacks, {"NORMAL"}, WideShuffledDecks)

NextOwnBoard ==
    \/ \E round \in RoundArgs : StartRoundAnyTime(round, boardCards, NoToken)
    \/ Continue
    \/ Resume
    \/ \E d \in ShuffledDecks :
            InitializeGame(Num(100), [i \in 1..NumBots |-> Num(100)], "NORMAL", d)

SpecOwnBoard == InitOwnBoard /\ [][NextOwnBoard]_vars

\* the cards on the board and in the deck, in one sequence
BoardThenDeck == boardCards \o deck

\* C14: between two hand resets the deck is never regenerated and never
\* grows (it is always what is left of the deck before), and no card is
\* twice among the board and the deck, the caller passing the engine's own board.
C14_DeckOnlyShrinksNoCardTwice ==
    /\ [](\A i, j \in 1..Len(BoardThenDeck) :
            BoardThenDeck[i] = BoardThenDeck[j] => i = j)
    /\ [][Called("startRound") => IsSuffix(deck', deck)]_vars

\* C14 witness: flop, turn and river were dealt in one hand
C14_Witness ==
    /\ lastCall.op = "startRound"
    /\ currentRound = "river"
    /\ Len(boardCards) = 5
    /\ Len(deck) = DeckSize - 8

\* applyAction calls on a fresh hand, what each call returned kept
NextReturning ==
    \/ \E p \in Players, action \in ActionNames \ {"raise"} :
            ApplyActionReturning(p, action, 0)
    \/ \E p \in Players, amount \in RaiseAmounts : ApplyActionReturning(p, "raise", amount)

SpecReturning == InitHand /\ [][NextReturning]_vars

\* C16: applyAction with an action other than fold, call or raise returns a
\* record with success = false and leaves every stack, bet, folded/active
\* flag and the pot unchanged (it does not throw).
C16_UnknownActionReportedStateKept ==
    [][(lastCall'.op = "applyAction" /\ lastCall'.action \notin {"fold", "call", "raise"})
        => /\ lastCall'.result.success = FALSE
           /\ UNCHANGED <<humanPlayer, bots, potSize>>]_vars

\* C16 witness: an unknown action was passed after chips had been bet and an
\* actor had folded
C16_Witness ==
    /\ lastCall.op = "applyAction"
    /\ lastCall.action = "check"
    /\ ~lastCall.result.success
    /\ potSize > 0
    /\ \E p \in Players : Player(p).folded

\* the actor's record after the step
PlayerAfter(p) == IF p = Human THEN humanPlayer' ELSE bots'[p]

\* C17: for every successful call or raise the amount of the returned record
\* is the number of chips the call moved from the actor's stack to the pot
\* (stack before minus stack after), and remainingStack is the stack after.
\* Stated for the calls and raises that moved chips.
C17_ReturnedAmountIsChipsMoved ==
    [][(/\ lastCall'.op = "applyAction" /\ lastCall'.action \in {"call", "raise"}
        /\ Player(lastCall'.p).stack # PlayerAfter(lastCall'.p).stack)
        => /\ lastCall'.result.success
           /\ lastCall'.result.amount = Player(lastCall'.p).stack - PlayerAfter(lastCall'.p).stack
           /\ lastCall'.result.remainingStack = PlayerAfter(lastCall'.p).stack]_vars

\* the human's turns of one hand and startRound calls that advance the
\* street, the caller free not to wait for a call to return; the engine has
\* no token, or the collaborator suggests a raise for every bot
TurnReplies ==
    { [kind |-> "noToken"] }
    \cup { [kind |-> "json", payload |-> GoodPayload(NumBots, "raise")] }

InitTurns == InitFromWith({Num(200)}, PlayStacks, {"NORMAL"}, {OrderedDeck}, BOOLEAN)

NextTurns ==
    \/ \E action \in ActionNames \ {"raise"}, reply \in TurnReplies :
            ProcessHumanAction(action, 0, reply)
    \/ \E amount \in RaiseAmounts \cup {5}, reply \in TurnReplies :
            ProcessHumanAction("raise", amount, reply)
    \/ /\ currentRound # "river"
       /\ \E reply \in TurnReplies :
            StartRound(NextStreet(currentRound), boardCards, reply)
    \/ Continue
    \/ Resume
    \/ \E k \in 1..MaxPending : HeadersArrive(k, TRUE)
    \/ \E k \in 1..MaxPending : BodyArrives(k)

SpecTurns == InitTurns /\ [][NextTurns]_vars

\* C15: when processHumanAction rejects an action, every stack, bet and
\* folded/active flag, the pot, the board, the deck and the street are as
\* before the call, and no bot action is applied.
C15_RejectedActionChangesNothing ==
    [][(Called("processHumanAction") /\ ~lastCall'.ok)
        => UNCHANGED <<humanPlayer, bots, potSize, boardCards, deck, currentRound,
                       applied>>]_vars

\* C15 witness: an action of the human was rejected after the human had
\* bet and a bot had answered
C15_Witness ==
    /\ lastCall = [op |-> "processHumanAction", ok |-> FALSE]
    /\ potSize > 0
    /\ Len(applied) > 0

------------------------------------------------------------------------
\* validateAction and initializeGame as calls of their own

\* validateAction(player, action, amount): reads only; the history keeps
\* the arguments and validation.valid
ValidateAction(p, action, amount) ==
    /\ lastCall' = [op |-> "validateAction",
                    ok |-> validateAction(EngineState, p, action, amount),
                    p |-> p, action |-> action, amount |-> amount]
    /\ UNCHANGED <<humanPlayer, bots, potSize, currentRound, boardCards, deck,
                   startStacks, applied, calls, mapperVars, aiVars>>

\* raise amounts validated: not positive, below the default minimum, the
\* default minimum, and amounts around the stacks and the bets owed
ValidateAmounts == {-100, 0, 5, 10, 100, 200, 300}

NextValidate ==
    \/ AnyApplyAction
    \/ \E p \in Players, action \in ActionNames \ {"raise"} : ValidateAction(p, action, 0)
    \/ \E p \in Players, amount \in ValidateAmounts : ValidateAction(p, "raise", amount)

SpecValidate == InitHand /\ [][NextValidate]_vars

\* the minimum raise as specified: twice what the human owes, or 10
SpecifiedMinRaise ==
    LET owed == Max(0, HighestActiveBet - humanPlayer.betInCurrentRound)
    IN  IF owed > 0 THEN 2 * owed ELSE 10

\* C19: validateAction accepts a raise exactly when the actor is active and
\* unfolded, the amount is at most the stack and at least the minimum raise
\* (twice the human's outstanding call amount, or 10 when that is zero); it
\* accepts every call of an active, unfolded actor, whatever the stack.
C19_RaiseAcceptedIffAffordableAndAboveMinimum ==
    (lastCall.op = "validateAction" /\ lastCall.action \in {"raise", "call"})
    => LET pl == Player(lastCall.p)
           acts == pl.isActive /\ ~pl.folded
       IN  IF lastCall.action = "raise"
           THEN lastCall.ok <=> ( /\ acts
                                  /\ lastCall.amount <= pl.stack
                                  /\ lastCall.amount >= SpecifiedMinRaise )
           ELSE lastCall.ok <=> acts

\* C19 witness: a raise of exactly the minimum, twice the 100 the human
\* owes, was accepted
C19_Witness ==
    /\ lastCall.op = "validateAction"
    /\ lastCall.action = "raise"
    /\ lastCall.p = Human
    /\ lastCall.amount = 200
    /\ lastCall.ok
    /\ HighestActiveBet - humanPlayer.betInCurrentRound = 100

\* arguments of initializeGame: botPlayers is not an array, an empty array
\* or an array of bots; humanPlayer is null, a value that is no object, or
\* an object
BotPlayersArgs ==
    { [kind |-> "notArray"], [kind |-> "array", items |-> <<>>],
      [kind |-> "array", items |-> [i \in 1..NumBots |-> Num(100)]] }

HumanPlayerArgs ==
    { [kind |-> "null"], [kind |-> "string"],
      [kind |-> "object", startingStack |-> Num(200)] }

\* the two checks at the head of initializeGame
initializeGameAccepts(botPlayers, human) ==
    /\ botPlayers.kind = "array" /\ Len(botPlayers.items) > 0
    /\ human.kind = "object"

\* initializeGame that resets the round state before it checks its arguments
InitializeGameCall_ResetFirst(botPlayers, human, d) ==
    /\ calls < MaxCalls
    /\ IF initializeGameAccepts(botPlayers, human)
       THEN InitializeGame(human.startingStack, botPlayers.items, "NORMAL", d)
       ELSE /\ calls' = calls + 1
            /\ lastCall' = [op |-> "initializeGame", ok |-> FALSE]
            /\ currentRound' = "preflop"
            /\ potSize' = 0
            /\ boardCards' = <<>>
            /\ deck' = d
            /\ UNCHANGED <<humanPlayer, bots, startStacks, applied, mapperVars, aiVars>>

\* initializeGame(botPlayers, humanPlayer) with any arguments: it throws on
\* the first check that fails, before any assignment
InitializeGameCall(botPlayers, human, d) ==
    /\ calls < MaxCalls
    /\ IF initializeGameAccepts(botPlayers, human)
       THEN InitializeGame(human.startingStack, botPlayers.items, "NORMAL", d)
       ELSE /\ calls' = calls + 1
            /\ lastCall' = [op |-> "initializeGame", ok |-> FALSE]
            /\ UNCHANGED <<humanPlayer, bots, potSize, currentRound, boardCards, deck,
                           startStacks, applied, mapperVars, aiVars>>

NextSetup ==
    \/ \E botPlayers \in BotPlayersArgs, human \in HumanPlayerArgs, d \in ShuffledDecks :
            InitializeGameCall(botPlayers, human, d)
    \/ \E round \in RoundArgs : StartRound(round, boardCards, NoToken)
    \/ Continue
    \/ Resume
    \/ \E p \in Players : ApplyAction(p, "raise", 100)

SpecSetup == InitStreets /\ [][NextSetup]_vars

\* C20: initializeGame called with no bot (not an array, or empty) or without
\* a human player object is rejected before any state change: bots, human
\* player, pot, board, deck and street are as before the call.
C20_RejectedInitializeGameChangesNothing ==
    [][(Called("initializeGame") /\ ~lastCall'.ok)
        => UNCHANGED <<humanPlayer, bots, potSize, boardCards, deck, currentRound>>]_vars

\* C20 witness: an initializeGame call was rejected in the middle of a hand,
\* chips in the pot and the flop on the board
C20_Witness ==
    /\ lastCall = [op |-> "initializeGame", ok |-> FALSE]
    /\ currentRound = "flop"
    /\ Len(boardCards) = 3
    /\ potSize > 0

------------------------------------------------------------------------
\* Starting stacks and the hand reset

\* startingStack values passed to initializeGame: missing, NaN, a string,
\* 0, numbers below, at and above the limits, with and without a fraction
AnyStackInputs ==
    << <<"missing", 0>>, <<"NaN", 0>>, <<"string", 0>>,
       <<"number", 0>>, <<"number", 50>>, <<"halves", 199>>, <<"number", 100>>,
       <<"halves", 301>>, <<"number", 1000000>>, <<"halves", 2000001>>,
       <<"number", 1000001>> >>

\* the i-th of them as the value initializeGame receives
StackInput(i) ==
    LET kind == AnyStackInputs[i][1]
        n == AnyStackInputs[i][2]
    IN  CASE kind = "number" -> Num(n)
          [] kind = "halves" -> Halves(n)
          [] OTHER -> [kind |-> kind]

\* initializeGame with the i-th input as the human's starting stack and the
\* j-th as the first bot's, the other bots starting with 100; the history
\* keeps which inputs were passed
InitializeGameRecording(i, j, diff, d) ==
    /\ InitializeGameEffect(StackInput(i),
                            [k \in 1..NumBots |-> IF k = 1 THEN StackInput(j) ELSE Num(100)],
                            diff, d)
    /\ lastCall' = [op |-> "initializeGame", ok |-> TRUE, hIn |-> i, bIn |-> j]

NextStacks ==
    \E i \in DOMAIN AnyStackInputs, j \in DOMAIN AnyStackInputs, d \in ShuffledDecks :
        InitializeGameRecording(i, j, "NORMAL", d)

SpecStacks == InitStreets /\ [][NextStacks]_vars

\* the initial stack as specified: 100 for a missing, non-numeric, NaN or
\* too small input, 1,000,000 for a too large one, floor(x) otherwise
SpecifiedStack(x) ==
    IF x.kind \notin {"number", "halves"} THEN 100
    ELSE LET twice == IF x.kind = "number" THEN 2 * x.v ELSE x.h
         IN  IF twice < 200 THEN 100
             ELSE IF twice > 2000000 THEN 1000000
             ELSE twice \div 2

\* C21: for every starting-stack input x of initializeGame the actor's
\* initial stack is 100 when x is missing, not a number, NaN or below 100,
\* 1,000,000 when x is above 1,000,000, and floor(x) otherwise.
C21_InitialStackClampedAndFloored ==
    (lastCall.op = "initializeGame" /\ "hIn" \in DOMAIN lastCall)
    => /\ humanPlayer.stack = SpecifiedStack(StackInput(lastCall.hIn))
       /\ bots[1].stack = SpecifiedStack(StackInput(lastCall.bIn))
       /\ \A i \in 2..NumBots : bots[i].stack = SpecifiedStack(Num(100))

\* resetRoundState that zeroes the bets and leaves the folded/active flags
resetPlayers_KeepsFlags(st) ==
    [st EXCEPT !.pot = 0,
               !.h.betInCurrentRound = 0,
               !.b = [i \in 1..Len(st.b) |-> [st.b[i] EXCEPT !.betInCurrentRound = 0]]]

\* the pot and the per-round fields of the players after resetRoundState
resetPlayers(st) ==
    [st EXCEPT !.pot = 0,
               !.h = [@ EXCEPT !.betInCurrentRound = 0, !.folded = FALSE, !.isActive = TRUE],
               !.b = [i \in 1..Len(st.b) |->
                        [st.b[i] EXCEPT !.betInCurrentRound = 0, !.folded = FALSE,
                                        !.isActive = TRUE]]]

\* resetRoundState(), d the deck createShuffledDeck returns
ResetRoundState(d) ==
    /\ calls < MaxCalls
    /\ calls' = calls + 1
    /\ currentRound' = "preflop"
    /\ boardCards' = <<>>
    /\ deck' = d
    /\ humanPlayer' = resetPlayers(EngineState).h
    /\ bots' = resetPlayers(EngineState).b
    /\ potSize' = resetPlayers(EngineState).pot
    /\ lastCall' = [op |-> "resetRoundState", ok |-> TRUE]
    /\ UNCHANGED <<startStacks, applied, mapperVars, aiVars>>

\* hands of betting and street changes, each ended by resetRoundState
NextReset ==
    \/ \E p \in Players, action \in {"fold", "call"} : ApplyAction(p, action, 0)
    \/ \E p \in Players : ApplyAction(p, "raise", 100)
    \/ /\ currentRound # "river"
       /\ StartRound(NextStreet(currentRound), boardCards, NoToken)
    \/ Continue
    \/ Resume
    \/ \E d \in ShuffledDecks : ResetRoundState(d)

SpecReset == InitStreets /\ [][NextReset]_vars

\* C22: after resetRoundState the street is preflop, the pot 0, the board
\* empty, the deck a full deck of 52 distinct cards, every actor has bet 0,
\* folded false, active true, and every actor's stack is as before.
C22_ResetClearsRoundKeepsStacks ==
    [][Called("resetRoundState") =>
        /\ currentRound' = "preflop"
        /\ potSize' = 0
        /\ boardCards' = <<>>
        /\ Len(deck') = 52
        /\ { Card(deck'[k]) : k \in 1..Len(deck') } = CanonicalCards
        /\ \A p \in Players :
            /\ PlayerAfter(p).betInCurrentRound = 0
            /\ ~PlayerAfter(p).folded
            /\ PlayerAfter(p).isActive
            /\ PlayerAfter(p).stack = Player(p).stack]_vars

\* C22 witness: a reset came after an all-in, a fold and the flop
C22_Witness ==
    /\ lastCall.op = "resetRoundState"
    /\ \E p \in Players : Player(p).stack = 0
    /\ Len(deck) = 52
    /\ calls >= 2

------------------------------------------------------------------------
\* PokerUtils: hand evaluation (poker-utils.js)

\* parseInt of the rank characters '2'..'9'
parseInt(rank) == CHOOSE n \in 2..9 : ToString(n) = rank

getCardRankValue(rank) ==
    IF rank = "A" THEN 14
    ELSE IF rank = "K" THEN 13
    ELSE IF rank = "Q" THEN 12
    ELSE IF rank = "J" THEN 11
    ELSE IF rank = "T" THEN 10
    ELSE parseInt(rank)

\* Object.values(counts).sort((a, b) => b - a)
RECURSIVE sortedCounts(_)
sortedCounts(counts) ==
    IF DOMAIN counts = {} THEN <<>>
    ELSE LET k == CHOOSE k \in DOMAIN counts :
                    \A j \in DOMAIN counts : counts[j] <= counts[k]
         IN  <<counts[k]>> \o sortedCounts([x \in DOMAIN counts \ {k} |-> counts[x]])

\* [...new Set(values)].sort((a, b) => b - a)
RECURSIVE uniqueSorted(_)
uniqueSorted(values) ==
    IF values = {} THEN <<>>
    ELSE LET top == CHOOSE v \in values : \A w \in values : w <= v
         IN  <<top>> \o uniqueSorted(values \ {top})

\* sortedRankCounts[i] === n, false where the array has no such entry
\* (i counted from 0 as in the source)
countIs(sorted, i, n) == i + 1 <= Len(sorted) /\ sorted[i + 1] = n

\* the wheel test that never finds a wheel
includesWheel_Never(uniqueRanks) == FALSE

\* the five includes() tests for A-2-3-4-5
includesWheel(uniqueRanks) == {14, 5, 4, 3, 2} \subseteq Range(uniqueRanks)

\* the loops looking for five ranks each one below the one before
hasSequence(uniqueRanks) ==
    /\ Len(uniqueRanks) >= 5
    /\ \E i \in 1..(Len(uniqueRanks) - 4) :
        \A j \in 0..3 : uniqueRanks[i + j] - 1 = uniqueRanks[i + j + 1]

\* the result for fewer than five cards
IncompleteHand == [category |-> "high_card", value |-> 0, description |-> "Incomplete hand"]

evaluatePokerHand(holeCards, communityCards) ==
    LET allCards == holeCards \o communityCards
        ranks == [i \in 1..Len(allCards) |-> getCardRankValue(Card(allCards[i]).rank)]
        suits == [i \in 1..Len(allCards) |-> Card(allCards[i]).suit]
        rankCounts == [r \in Range(ranks) |->
                          Cardinality({ i \in 1..Len(ranks) : ranks[i] = r })]
        suitCounts == [s \in Range(suits) |->
                          Cardinality({ i \in 1..Len(suits) : suits[i] = s })]
        sortedRankCounts == sortedCounts(rankCounts)
        maxSuitCount == sortedCounts(suitCounts)[1]
        uniqueRanks == uniqueSorted(Range(ranks))
        isWheel == includesWheel(uniqueRanks)
        isStraight == ~isWheel /\ hasSequence(uniqueRanks)
        isFlush == maxSuitCount >= 5
        flushSuits == IF isFlush THEN { s \in DOMAIN suitCounts : suitCounts[s] >= 5 }
                      ELSE {}
        uniqueSuitedRanks(s) ==
            uniqueSorted({ ranks[i] : i \in { k \in 1..Len(suits) : suits[k] = s } })
        isRoyalFlush ==
            \E s \in flushSuits :
                LET u == uniqueSuitedRanks(s)
                IN  /\ hasSequence(u)
                    /\ u[1] = 14
                    /\ {13, 12, 11, 10} \subseteq Range(u)
        isStraightFlush ==
            \E s \in flushSuits :
                LET u == uniqueSuitedRanks(s)
                IN  /\ Len(u) >= 5
                    /\ (hasSequence(u) \/ includesWheel(u))
        details == [rankCounts |-> rankCounts, suitCounts |-> suitCounts]
        result(category, value, description) ==
            [category |-> category, value |-> value,
             description |-> description, details |-> details]
    IN  IF Len(allCards) < 5 THEN IncompleteHand
        ELSE IF isRoyalFlush THEN result("royal_flush", 10, "Royal Flush")
        ELSE IF isStraightFlush THEN result("straight_flush", 9, "Straight Flush")
        ELSE IF countIs(sortedRankCounts, 0, 4)
            THEN result("four_of_a_kind", 8, "Four of a Kind")
        ELSE IF countIs(sortedRankCounts, 0, 3) /\ countIs(sortedRankCounts, 1, 2)
            THEN result("full_house", 7, "Full House")
        ELSE IF isFlush THEN result("flush", 6, "Flush")
        ELSE IF isStraight \/ isWheel THEN result("straight", 5, "Straight")
        ELSE IF countIs(sortedRankCounts, 0, 3)
            THEN result("three_of_a_kind", 4, "Three of a Kind")
        ELSE IF countIs(sortedRankCounts, 0, 2) /\ countIs(sortedRankCounts, 1, 2)
            THEN result("two_pair", 3, "Two Pair")
        ELSE IF countIs(sortedRankCounts, 0, 2) THEN result("one_pair", 2, "One Pair")
        ELSE result("high_card", 1, "High Card")

\* comparePokerHands that never reports a loss of hand1
comparePokerHands_NoLoss(hand1, communityCards, hand2) ==
    IF evaluatePokerHand(hand1, communityCards).value
         > evaluatePokerHand(hand2, communityCards).value THEN 1 ELSE 0

comparePokerHands(hand1, communityCards, hand2) ==
    LET eval1 == evaluatePokerHand(hand1, communityCards)
        eval2 == evaluatePokerHand(hand2, communityCards)
    IN  IF eval1.value > eval2.value THEN 1
        ELSE IF eval1.value < eval2.value THEN -1
        ELSE 0

\* determineWinners: playerHands is a sequence of [cards, active]; the
\* indices returned count from 0 as in the source
determineWinners(playerHands, communityCards) ==
    IF Len(playerHands) = 0 THEN <<>>
    ELSE LET evaluations ==
                 [i \in 1..Len(playerHands) |->
                     IF ~playerHands[i].active
                     THEN [index |-> i - 1, value |-> -1]
                     ELSE [index |-> i - 1,
                           value |-> evaluatePokerHand(playerHands[i].cards,
                                                       communityCards).value]]
             maxHandValue == CHOOSE v \in { evaluations[i].value : i \in 1..Len(evaluations) } :
                                 \A i \in 1..Len(evaluations) : evaluations[i].value <= v
         IN  [i \in 1..Len(SelectSeq(evaluations, LAMBDA e : e.value = maxHandValue)) |->
                 SelectSeq(evaluations, LAMBDA e : e.value = maxHandValue)[i].index]

\* the card with the given rank and suit, as its number
CardOf(rank, suit) == CHOOSE k \in 1..DeckSize : Card(k) = [suit |-> suit, rank |-> rank]

\* the cards of a set as an array, in deck order
RECURSIVE CardList(_)
CardList(cards) ==
    IF cards = {} THEN <<>>
    ELSE LET k == CHOOSE k \in cards : \A j \in cards : k <= j
         IN  <<k>> \o CardList(cards \ {k})

\* the subsets of the given sizes
SubsetsOfSize(S, sizes) == { T \in SUBSET S : Cardinality(T) \in sizes }

\* hole cards evaluated: every two cards out of these
HolePool ==
    { CardOf("A", "hearts"), CardOf("K", "hearts"), CardOf("9", "hearts"),
      CardOf("5", "hearts"), CardOf("2", "clubs"), CardOf("2", "diamonds"),
      CardOf("3", "diamonds"), CardOf("A", "spades") }

\* community cards evaluated: none, or three to five cards out of these
BoardPool ==
    { CardOf("Q", "hearts"), CardOf("J", "hearts"), CardOf("T", "hearts"),
      CardOf("9", "diamonds"), CardOf("8", "clubs"), CardOf("2", "hearts"),
      CardOf("2", "spades"), CardOf("5", "clubs"), CardOf("7", "diamonds"),
      CardOf("9", "spades"), CardOf("3", "hearts"), CardOf("4", "hearts") }

HoleCards == { CardList(h) : h \in SubsetsOfSize(HolePool, {2}) }
CommunityCards == { CardList(b) : b \in SubsetsOfSize(BoardPool, {0, 3, 4, 5}) }

EvaluatePokerHand ==
    /\ mapOut = NoValue
    /\ mapOut' = evaluatePokerHand(mapIn.holeCards, mapIn.communityCards)
    /\ UNCHANGED <<mapIn, engineVars, aiVars>>

\* evaluatePokerHand applied to every pair of hole cards and every board
InitEvaluate ==
    /\ EngineConstructed
    /\ \E h \in HoleCards, b \in CommunityCards :
        mapIn = [holeCards |-> h, communityCards |-> b]
    /\ mapOut = NoValue
    /\ aiIn = NoValue
    /\ aiOut = NoValue
    /\ aiCalls = <<>>
    /\ timers = 0
    /\ serviceToken = FALSE

NextEvaluate == EvaluatePokerHand

SpecEvaluate == InitEvaluate /\ [][NextEvaluate]_vars

\* the hand evaluation as specified, on the set of cards: rank values 2..14
\* and the suit of a card number
RankValue(k) == ((k - 1) % 13) + 2
SuitIndex(k) == (k - 1) \div 13

\* five consecutive rank values, or the wheel
StraightIn(rankValues) ==
    \/ \E low \in 2..10 : low..(low + 4) \subseteq rankValues
    \/ {14, 2, 3, 4, 5} \subseteq rankValues

\* the highest category whose detection condition holds, as its value
SpecifiedValue(cards) ==
    LET count(r) == Cardinality({ k \in cards : RankValue(k) = r })
        suited(s) == { k \in cards : SuitIndex(k) = s }
        suitedRanks(s) == { RankValue(k) : k \in suited(s) }
        flushSuits == { s \in 0..3 : Cardinality(suited(s)) >= 5 }
        pairs == { r \in 2..14 : count(r) = 2 }
    IN  IF \E s \in flushSuits : 10..14 \subseteq suitedRanks(s) THEN 10
        ELSE IF \E s \in flushSuits : StraightIn(suitedRanks(s)) THEN 9
        ELSE IF \E r \in 2..14 : count(r) = 4 THEN 8
        ELSE IF (\E r \in 2..14 : count(r) = 3) /\ pairs # {} THEN 7
        ELSE IF flushSuits # {} THEN 6
        ELSE IF StraightIn({ RankValue(k) : k \in cards }) THEN 5
        ELSE IF \E r \in 2..14 : count(r) = 3 THEN 4
        ELSE IF Cardinality(pairs) >= 2 THEN 3
        ELSE IF pairs # {} THEN 2
        ELSE 1

\* the category each value is paired with
CategoryOfValue ==
    <<"high_card", "one_pair", "two_pair", "three_of_a_kind", "straight",
      "flush", "full_house", "four_of_a_kind", "straight_flush", "royal_flush">>

EvaluatedCards == Range(mapIn.holeCards) \cup Range(mapIn.communityCards)

\* C23: for 5 to 7 distinct cards evaluatePokerHand returns the highest
\* category, in the order royal flush(10) > straight flush(9) > four of a
\* kind(8) > full house(7) > flush(6) > straight(5, wheel included) > three
\* of a kind(4) > two pair(3) > one pair(2) > high card(1), whose detection
\* condition holds on the combined cards, with the value paired to it.
C23_HighestDetectedCategory ==
    (mapOut # NoValue /\ "holeCards" \in DOMAIN mapIn
        /\ Cardinality(EvaluatedCards) \in 5..7)
    => /\ mapOut.value = SpecifiedValue(EvaluatedCards)
       /\ mapOut.category = CategoryOfValue[mapOut.value]

\* C23 witness: A,K of hearts with Q,J,T of hearts on the board evaluated
\* to a royal flush of value 10
C23_Witness ==
    /\ mapOut # NoValue
    /\ "holeCards" \in DOMAIN mapIn
    /\ mapIn.holeCards = CardList({CardOf("A", "hearts"), CardOf("K", "hearts")})
    /\ {CardOf("Q", "hearts"), CardOf("J", "hearts"), CardOf("T", "hearts")}
            \subseteq Range(mapIn.communityCards)
    /\ Len(mapIn.communityCards) = 5
    /\ mapOut.category = "royal_flush"
    /\ mapOut.value = 10

\* C24: the value of every evaluation result lies in 1..10 and is the one
\* paired with the category, for 2 to 7 cards, fewer than 5 included.
C24_ValueInRangeAndFixedByCategory ==
    (mapOut # NoValue /\ "holeCards" \in DOMAIN mapIn)
    => /\ mapOut.value \in 1..10
       /\ mapOut.category = CategoryOfValue[mapOut.value]

\* comparePokerHands: boards of three to five cards out of these
ComparePool ==
    { CardOf("Q", "hearts"), CardOf("J", "hearts"), CardOf("T", "hearts"),
      CardOf("2", "hearts"), CardOf("2", "spades"), CardOf("9", "diamonds"),
      CardOf("5", "clubs") }

CompareBoards == { CardList(b) : b \in SubsetsOfSize(ComparePool, {3, 4, 5}) }

ComparePokerHands ==
    /\ mapOut = NoValue
    /\ mapOut' = [result |-> comparePokerHands(mapIn.hand1, mapIn.communityCards,
                                               mapIn.hand2)]
    /\ UNCHANGED <<mapIn, engineVars, aiVars>>

\* comparePokerHands applied to every two disjoint hands and every board
InitCompare ==
    /\ EngineConstructed
    /\ \E h1 \in HoleCards, h2 \in HoleCards, b \in CompareBoards :
        /\ Range(h1) \cap Range(h2) = {}
        /\ mapIn = [hand1 |-> h1, communityCards |-> b, hand2 |-> h2]
    /\ mapOut = NoValue
    /\ aiIn = NoValue
    /\ aiOut = NoValue
    /\ aiCalls = <<>>
    /\ timers = 0
    /\ serviceToken = FALSE

NextCompare == ComparePokerHands

SpecCompare == InitCompare /\ [][NextCompare]_vars

Sign(n) == IF n > 0 THEN 1 ELSE IF n < 0 THEN -1 ELSE 0

\* C26: comparePokerHands(h1, board, h2) is the sign of the category value
\* of h1 minus the category value of h2, and it is antisymmetric:
\* comparePokerHands(h1, board, h2) = -comparePokerHands(h2, board, h1).
C26_CompareIsSignOfValueDifference ==
    (mapOut # NoValue /\ "hand1" \in DOMAIN mapIn)
    => LET board == Range(mapIn.communityCards)
           value1 == SpecifiedValue(Range(mapIn.hand1) \cup board)
           value2 == SpecifiedValue(Range(mapIn.hand2) \cup board)
       IN  /\ mapOut.result = Sign(value1 - value2)
           /\ mapOut.result = 0 - comparePokerHands(mapIn.hand2, mapIn.communityCards,
                                                    mapIn.hand1)

\* C26 witness: a pair of twos lost to a royal flush on the same board
C26_Witness ==
    /\ mapOut # NoValue
    /\ "hand1" \in DOMAIN mapIn
    /\ mapIn.hand1 = CardList({CardOf("2", "clubs"), CardOf("2", "diamonds")})
    /\ mapIn.hand2 = CardList({CardOf("A", "hearts"), CardOf("K", "hearts")})
    /\ Len(mapIn.communityCards) = 5
    /\ mapOut.result = -1

\* determineWinners: the hole cards the actors hold
WinnerHands ==
    { CardList({CardOf("A", "hearts"), CardOf("K", "hearts")}),
      CardList({CardOf("2", "clubs"), CardOf("2", "diamonds")}),
      CardList({CardOf("9", "hearts"), CardOf("5", "hearts")}),
      CardList({CardOf("3", "diamonds"), CardOf("A", "spades")}) }

\* most actors given to determineWinners
MaxHands == 3

\* the playerHands arrays: up to MaxHands actors holding different cards,
\* each active or folded
PlayerHandsArgs ==
    { ph \in UNION { [1..n -> [cards : WinnerHands, active : BOOLEAN]] : n \in 0..MaxHands } :
        \A i, j \in 1..Len(ph) : i # j => ph[i].cards # ph[j].cards }

WinnerBoards == { CardList(b) : b \in SubsetsOfSize(ComparePool, {5}) }

DetermineWinners ==
    /\ mapOut = NoValue
    /\ mapOut' = [winners |-> determineWinners(mapIn.playerHands, mapIn.communityCards)]
    /\ UNCHANGED <<mapIn, engineVars, aiVars>>

\* determineWinners applied to every playerHands array and every board
InitWinners ==
    /\ EngineConstructed
    /\ \E ph \in PlayerHandsArgs, b \in WinnerBoards :
        mapIn = [playerHands |-> ph, communityCards |-> b]
    /\ mapOut = NoValue
    /\ aiIn = NoValue
    /\ aiOut = NoValue
    /\ aiCalls = <<>>
    /\ timers = 0
    /\ serviceToken = FALSE

NextWinners == DetermineWinners

SpecWinners == InitWinners /\ [][NextWinners]_vars

\* C25: determineWinners returns exactly the indices of the active actors
\* whose category value is the highest among the active actors, and never
\* the index of a folded actor, also when every actor is folded.
C25_WinnersAreBestActiveActors ==
    (mapOut # NoValue /\ "playerHands" \in DOMAIN mapIn)
    => LET ph == mapIn.playerHands
           board == Range(mapIn.communityCards)
           active == { i \in 1..Len(ph) : ph[i].active }
           valueOf(i) == SpecifiedValue(Range(ph[i].cards) \cup board)
           best == { i \in active : \A j \in active : valueOf(j) <= valueOf(i) }
       IN  Range(mapOut.winners) = { i - 1 : i \in best }

\* the payload deviates from the format of the bot entries: not one entry
\* per bot, an entry whose botIndex is not its position, a bias outside
\* fold/call/raise or a confidence outside [0, 1] (in tenths)
DeviatesFromBotFormat(payload, gs) ==
    \/ "botActions" \notin payload.has
    \/ Len(payload.botActions) # Len(gs.botStacks)
    \/ \E i \in 1..Len(payload.botActions) :
        \/ payload.botActions[i].botIndex # i - 1
        \/ payload.botActions[i].actionBias \notin {"fold", "call", "raise"}
        \/ payload.botActions[i].confidence < 0
        \/ payload.botActions[i].confidence > 10

\* C27: an advisory response that does not hold exactly one botActions
\* entry per bot, the entry at position i with botIndex i, a bias in
\* {fold, call, raise} and a confidence in [0,1], is not accepted: the
\* actions returned are the fallback actions, not the payload's.
C27_DeviatingResponseGivesFallback ==
    ( /\ aiOut # NoValue
      /\ aiIn.reply.kind = "json"
      /\ DeviatesFromBotFormat(aiIn.reply.payload, aiIn.gs) )
    => /\ ~isValidDecision(aiIn.reply.payload, aiIn.gs)
       /\ aiOut.actions = generateFallbackActions(aiIn.gs)

\* C27 witness: a payload for two bots whose first entry names bot 1 was
\* answered with the fallback actions; the payload asked for raises
C27_Witness ==
    /\ aiOut # NoValue
    /\ aiIn.gs.hasRequired
    /\ aiIn.reply.kind = "json"
    /\ Len(aiIn.gs.botStacks) = 2
    /\ Len(aiIn.reply.payload.botActions) = 2
    /\ aiIn.reply.payload.botActions[1].botIndex = 1
    /\ aiIn.reply.payload.botActions[2].actionBias = "raise"
    /\ \A i \in 1..2 : aiOut.actions[i].action = "call"

\* C29: every action applied to a bot in response to a human action is
\* applied to a bot that is active and unfolded at that moment, is one of
\* the legal actions, and is either the suggested action that passed
\* validateAction for that bot or the engine's fallback (call if the stack
\* covers the amount owed, else fold).
C29_BotActionsValidatedOrFallback ==
    lastCall = [op |-> "getBotStrategicResponses", ok |-> TRUE]
    => \A k \in 1..Len(applied) :
        LET e == applied[k]
        IN  /\ e.isActive /\ ~e.folded
            /\ Includes(getLegalActions, e.action)
            /\ \/ e.valid /\ e.action = e.suggested
               \/ e.action = FallbackPolicy(e.stackBefore, e.owedBefore)

\* C29 witness: suggested raises failed validation; the fallback folded a
\* bot that owed more than its stack and made a bot that could pay call
C29_Witness ==
    /\ lastCall = [op |-> "getBotStrategicResponses", ok |-> TRUE]
    /\ \E k \in 1..Len(applied) :
        /\ ~applied[k].valid
        /\ applied[k].suggested = "raise"
        /\ applied[k].stackBefore < applied[k].owedBefore
        /\ applied[k].action = "fold"
    /\ \E k \in 1..Len(applied) :
        /\ ~applied[k].valid
        /\ applied[k].stackBefore >= applied[k].owedBefore
        /\ applied[k].action = "call"

\* game data given to generateFallbackDecision: botStacks an array of 0 to
\* NumBots stacks
FallbackGameData ==
    UNION { [difficulty : Difficulties, potSize : PotSizes,
             botStacks : [1..n -> BotStackValues],
             legalActions : {getLegalActions}] : n \in 0..NumBots }

\* aiOut.decision is the object the returned JSON text parses to
GenerateFallbackDecision(easyBias) ==
    /\ aiOut = NoValue
    /\ aiOut' = [decision |-> generateFallbackDecision(aiIn.gameData, easyBias)]
    /\ UNCHANGED <<serviceToken, aiIn, aiCalls, timers, engineVars, mapperVars>>

\* generateFallbackDecision applied to every game data, under every random draw
InitFallbackDecision ==
    /\ EngineConstructed
    /\ mapIn = NoValue
    /\ mapOut = NoValue
    /\ \E gameData \in FallbackGameData : aiIn = [gameData |-> gameData]
    /\ aiOut = NoValue
    /\ aiCalls = <<>>
    /\ timers = 0
    /\ serviceToken = FALSE

NextFallbackDecision ==
    \E easyBias \in [1..Len(aiIn.gameData.botStacks) -> Biases] :
        GenerateFallbackDecision(easyBias)

SpecFallbackDecision == InitFallbackDecision /\ [][NextFallbackDecision]_vars

\* C30: for game data with N bot stacks generateFallbackDecision returns a
\* decision with exactly N botActions, the entry at position i with botIndex
\* i, a bias in {fold, call, raise} and a confidence in [0,1], a globalPlan
\* among the five plans and aggression, bluffFrequency, coordination in [0,1]
\* (tenths).
C30_FallbackDecisionWellFormed ==
    (aiOut # NoValue /\ "decision" \in DOMAIN aiOut)
    => LET d == aiOut.decision
       IN  /\ {"globalPlan", "aggression", "bluffFrequency", "coordination",
                "botActions"} \subseteq d.has
           /\ Len(d.botActions) = Len(aiIn.gameData.botStacks)
           /\ \A i \in 1..Len(d.botActions) :
                /\ d.botActions[i].botIndex = i - 1
                /\ d.botActions[i].actionBias \in {"fold", "call", "raise"}
                /\ d.botActions[i].confidence \in 0..10
           /\ d.globalPlan \in {"pressure", "trap", "isolate", "pot_control", "chaos"}
           /\ d.aggression \in 0..10
           /\ d.bluffFrequency \in 0..10
           /\ d.coordination \in 0..10

\* C30 witness: the fallback decision for two bots at difficulty EASY, the
\* random picks being raise and fold
C30_Witness ==
    /\ aiOut # NoValue
    /\ "decision" \in DOMAIN aiOut
    /\ aiIn.gameData.difficulty = "EASY"
    /\ Len(aiIn.gameData.botStacks) = 2
    /\ aiOut.decision.botActions[1] = [botIndex |-> 0, actionBias |-> "raise", confidence |-> 6]
    /\ aiOut.decision.botActions[2] = [botIndex |-> 1, actionBias |-> "fold", confidence |-> 6]

\* C28: once at most one active, unfolded actor remains the hand is over:
\* until the next reset no startRound call adds board cards and no action
\* moves chips from a stack to the pot.
C28_NoPlayAfterHandComplete ==
    [][( /\ Cardinality(ActiveUnfolded) <= 1
         /\ lastCall'.op \notin {"resetRoundState", "initializeGame"} )
        => /\ boardCards' = boardCards
           /\ potSize' = potSize
           /\ \A p \in Players : PlayerAfter(p).stack = Player(p).stack]_vars

\* the amount owed as specified: the highest currentRoundBet among the
\* unfolded actors minus the actor's own, never below 0
SpecifiedOwed(p) ==
    LET bets == { Player(q).betInCurrentRound : q \in { r \in Players : ~Player(r).folded } }
        highest == IF bets = {} THEN 0 ELSE CHOOSE m \in bets : \A x \in bets : x <= m
    IN  Max(0, highest - Player(p).betInCurrentRound)

\* the step is an applyAction call with call or raise
CallOrRaiseApplied ==
    /\ lastCall'.op = "applyAction"
    /\ "amount" \in DOMAIN lastCall'
    /\ lastCall'.action \in {"call", "raise"}

\* the call or raise of the step moved exactly `moved` chips from the
\* actor's stack to the pot and to the actor's bet, and touched nothing else
MovedExactly(moved) ==
    LET p == lastCall'.p
    IN  /\ lastCall'.result.success
        /\ PlayerAfter(p).stack = Player(p).stack - moved
        /\ PlayerAfter(p).betInCurrentRound = Player(p).betInCurrentRound + moved
        /\ potSize' = potSize + moved
        /\ PlayerAfter(p).folded = Player(p).folded
        /\ PlayerAfter(p).isActive = Player(p).isActive
        /\ \A q \in Players \ {p} : PlayerAfter(q) = Player(q)

\* C31: applyAction with call moves exactly min(amount owed, stack) chips
\* from the actor's stack to the pot and to the actor's currentRoundBet;
\* with raise it moves exactly min(amount, stack) chips the same way, so a
\* raise above the stack is an all-in; no other actor's stack or bet changes.
C31_CallAndRaiseMoveClampedChips ==
    [][CallOrRaiseApplied
        => MovedExactly(IF lastCall'.action = "call"
                        THEN Min(SpecifiedOwed(lastCall'.p), Player(lastCall'.p).stack)
                        ELSE Min(lastCall'.amount, Player(lastCall'.p).stack))]_vars

\* C31 as amended: a call moves exactly min(amount owed, stack) chips and a
\* raise exactly min(amount, stack) chips when that is positive and no chip
\* otherwise (a negative amount moves nothing and still succeeds), from the
\* actor's stack to the pot and to the actor's currentRoundBet; no other
\* actor's stack or bet changes.
C31_RaiseMovesClampedChipsOrNone ==
    [][CallOrRaiseApplied
        => MovedExactly(IF lastCall'.action = "call"
                        THEN Min(SpecifiedOwed(lastCall'.p), Player(lastCall'.p).stack)
                        ELSE Max(0, Min(lastCall'.amount, Player(lastCall'.p).stack)))]_vars

\* C31 witness: a raise of 300 by an actor holding 100 went all-in, and an
\* actor called part of a bet with the last of a smaller stack
C31_Witness ==
    /\ lastCall.op = "applyAction"
    /\ "amount" \in DOMAIN lastCall
    /\ lastCall.action = "raise"
    /\ lastCall.amount = 300
    /\ Player(lastCall.p).stack = 0
    /\ Player(lastCall.p).betInCurrentRound = 100
    /\ \E q \in Players \ {lastCall.p} :
        /\ Player(q).stack = 0
        /\ Player(q).betInCurrentRound > 0
        /\ \E r \in Players : Player(r).betInCurrentRound > Player(q).betInCurrentRound

\* C32: in every reachable state every actor has folded = not active; the
\* two flags only change together, a fold sets folded and clears active, and
\* only a hand reset (resetRoundState, initializeGame) sets them back.
C32_FoldedIsNotActive ==
    /\ [](\A p \in Players : Player(p).folded = ~Player(p).isActive)
    /\ [][\A p \in Players :
            /\ (PlayerAfter(p).folded # Player(p).folded)
                    <=> (PlayerAfter(p).isActive # Player(p).isActive)
            /\ (Player(p).folded /\ ~PlayerAfter(p).folded)
                    => lastCall'.op \in {"resetRoundState", "initializeGame"}]_vars

\* C32 witness: in the second hand one actor has folded and is inactive, the
\* others are active and unfolded
C32_Witness ==
    /\ calls >= 1
    /\ lastCall.op = "applyAction"
    /\ \E p \in Players : Player(p).folded /\ ~Player(p).isActive
    /\ \E p \in Players : ~Player(p).folded /\ Player(p).isActive
    /\ currentRound = "preflop"

\* the degradation table as specified: a rule applies to a raise bias when
\* call or fold is legal, to a call bias when fold is legal, and to a fold
\* bias with call legal at difficulty EASY or, at HARD, for a bet below 0.4
\* of the pot (a pot of 0 counting as 100)
DegradationRuleApplies(botAction, gs) ==
    LET legal == Range(gs.legalActions)
        pot == IF gs.potSize = 0 THEN 100 ELSE gs.potSize
    IN  \/ botAction.actionBias = "raise" /\ legal \cap {"call", "fold"} # {}
        \/ botAction.actionBias = "call" /\ "fold" \in legal
        \/ /\ botAction.actionBias = "fold" /\ "call" \in legal
           /\ \/ gs.difficulty = "EASY"
              \/ gs.difficulty = "HARD" /\ 10 * gs.playerBetSize < 4 * pot

\* C33: a bias that is in the non-empty legal-action list is returned as the
\* action with its confidence unchanged, for every difficulty and pot/bet
\* size; a bias that is not legal and that no degradation rule covers gives
\* the first legal action with confidence 0.5.
C33_LegalBiasPassesElseFirstLegal ==
    (mapOut # NoValue /\ "botAction" \in DOMAIN mapIn /\ Len(mapIn.gs.legalActions) > 0)
    => LET bias == mapIn.botAction.actionBias
           legal == mapIn.gs.legalActions
       IN  /\ bias \in Range(legal)
                => /\ mapOut.action = bias
                   /\ mapOut.confidence = mapIn.botAction.confidence
           /\ (bias \notin Range(legal) /\ ~DegradationRuleApplies(mapIn.botAction, mapIn.gs))
                => /\ mapOut.action = legal[1]
                   /\ mapOut.confidence = 5

\* C33 witness: the bias call, legal as the second of two actions, came back
\* as call with its confidence of 0.2
C33_Witness ==
    /\ mapOut # NoValue
    /\ "botAction" \in DOMAIN mapIn
    /\ mapIn.gs.legalActions = <<"fold", "call">>
    /\ mapIn.botAction.actionBias = "call"
    /\ mapIn.botAction.confidence = 2
    /\ mapOut.action = "call"
    /\ mapOut.confidence = 2

\* C40: the action determineConcreteAction returns is fixed by the bias, the
\* legal actions, the difficulty, the pot and the bet: every random draw
\* gives the action that was returned; only the confidence may differ.
C40_ActionIndependentOfRandomDraw ==
    (mapOut # NoValue /\ "botAction" \in DOMAIN mapIn)
    => \A r03 \in BOOLEAN :
        determineConcreteAction(mapIn.botAction, mapIn.gs, r03).action = mapOut.action

\* C40 witness: a raise bias with raise illegal at difficulty HARD became a
\* call whose confidence depends on the draw (0.9 or 0.8)
C40_Witness ==
    /\ mapOut # NoValue
    /\ "botAction" \in DOMAIN mapIn
    /\ mapIn.gs.difficulty = "HARD"
    /\ mapIn.botAction.actionBias = "raise"
    /\ mapIn.botAction.confidence = 10
    /\ mapOut.action = "call"
    /\ determineConcreteAction(mapIn.botAction, mapIn.gs, TRUE).confidence = 9
    /\ determineConcreteAction(mapIn.botAction, mapIn.gs, FALSE).confidence = 8

\* C34: a startRound call that starts a street (its round name is valid)
\* leaves every actor, folded or not, with currentRoundBet 0 and changes no
\* actor's stack, folded flag or active flag.
C34_StartRoundClearsBetsOnly ==
    [][( /\ Called("startRound")
         /\ ~(~lastCall'.ok /\ lastCall'.deal = "none") )
        => \A p \in Players :
            /\ PlayerAfter(p).betInCurrentRound = 0
            /\ PlayerAfter(p).stack = Player(p).stack
            /\ PlayerAfter(p).folded = Player(p).folded
            /\ PlayerAfter(p).isActive = Player(p).isActive]_vars

\* C34 witness: the flop started after an actor had bet 100 and folded and
\* another had called: all bets are 0 again, the chips stay out of the stacks
C34_Witness ==
    /\ lastCall.op = "startRound"
    /\ lastCall.ok
    /\ currentRound = "flop"
    /\ \E p \in Players : Player(p).folded /\ Player(p).stack < startStacks[p + 1]
    /\ \E p \in Players : ~Player(p).folded /\ Player(p).stack < startStacks[p + 1]
    /\ \A p \in Players : Player(p).betInCurrentRound = 0

\* C35: in engine-driven play no bot action raises the street's highest bet:
\* a raise suggested for a bot is applied as a call or a fold, and every
\* bot's currentRoundBet is at most the human's in every reachable state.
C35_BotsNeverExceedHumanBet ==
    /\ \A i \in 1..Len(bots) : bots[i].betInCurrentRound <= humanPlayer.betInCurrentRound
    /\ \A k \in 1..Len(applied) :
        applied[k].suggested = "raise" => applied[k].action \in {"call", "fold"}

\* C35 witness: raises were suggested for the bots after the human's raise;
\* a bot was made to call and stands at the human's bet
C35_Witness ==
    /\ lastCall = [op |-> "getBotStrategicResponses", ok |-> TRUE]
    /\ humanPlayer.betInCurrentRound > 0
    /\ \E k \in 1..Len(applied) :
        /\ applied[k].suggested = "raise"
        /\ applied[k].action = "call"
        /\ bots[applied[k].botIndex + 1].betInCurrentRound = humanPlayer.betInCurrentRound

\* C36: when a processHumanAction call with call or raise has returned, every
\* bot still active and unfolded has a currentRoundBet equal to the street's
\* highest bet or a stack of 0, and isRoundComplete() is true.
C36_RoundCompleteAfterHumanTurn ==
    (lastCall = [op |-> "getBotStrategicResponses", ok |-> TRUE] /\ ~humanPlayer.folded)
    => /\ \A i \in 1..Len(bots) :
            (bots[i].isActive /\ ~bots[i].folded)
                => \/ bots[i].betInCurrentRound = HighestActiveBet
                   \/ bots[i].stack = 0
       /\ isRoundComplete(EngineState)

\* C37: the bot actions of a processHumanAction call are applied to the
\* street, pot and bets its advisory request was built from, also when
\* another engine call was issued while the call was awaiting the collaborator.
C37_BotActionsAppliedToRequestState ==
    [][\A k \in 1..Len(aiCalls) :
        (aiCalls[k].kind = "responses" /\ aiCalls[k].pc = "resuming"
            /\ aiCalls' = RemoveCall(k))
            => aiCalls[k].built = RoundState]_vars

\* C38: a processHumanAction call, bot responses included, leaves the stack
\* of every actor who had folded as it was and leaves the actor folded and
\* inactive; the call is rejected when the human had folded, and no bot
\* action is applied for a bot who had folded.
C38_FoldedActorsAreLeftAlone ==
    [][/\ (Called("processHumanAction") \/ BotResponsesApplied)
            => \A p \in Players :
                Player(p).folded
                    => /\ PlayerAfter(p).stack = Player(p).stack
                       /\ PlayerAfter(p).folded
                       /\ ~PlayerAfter(p).isActive
       /\ humanPlayer.folded => ~HumanActionAccepted
       /\ BotResponsesApplied
            => \A k \in 1..Len(applied') :
                    ~bots[applied'[k].botIndex + 1].folded]_vars

\* the human, folded, has had an action rejected, and the bot actions last
\* applied passed over a bot who had folded
C38_Witness ==
    /\ lastCall = [op |-> "processHumanAction", ok |-> FALSE]
    /\ humanPlayer.folded
    /\ applied # <<>>
    /\ \E i \in 1..Len(bots) :
        /\ bots[i].folded
        /\ \A k \in 1..Len(applied) : applied[k].botIndex # i - 1

------------------------------------------------------------------------
\* standard hand ranking

\* the value, 1..10, of a hand of exactly five cards under standard ranking
FiveCardValue(five) ==
    LET ranks == { RankValue(k) : k \in five }
        count(r) == Cardinality({ k \in five : RankValue(k) = r })
        counts == { count(r) : r \in ranks }
        flush == Cardinality({ SuitIndex(k) : k \in five }) = 1
        straight == Cardinality(ranks) = 5 /\ StraightIn(ranks)
    IN  IF flush /\ ranks = 10..14 THEN 10
        ELSE IF flush /\ straight THEN 9
        ELSE IF 4 \in counts THEN 8
        ELSE IF counts = {3, 2} THEN 7
        ELSE IF flush THEN 6
        ELSE IF straight THEN 5
        ELSE IF 3 \in counts THEN 4
        ELSE IF Cardinality(ranks) = 3 THEN 3
        ELSE IF Cardinality(ranks) = 4 THEN 2
        ELSE 1

\* the value of the best five-card hand that can be chosen from the cards
BestFiveCardValue(cards) ==
    LET values == { FiveCardValue(five) : five \in SubsetsOfSize(cards, {5}) }
    IN  CHOOSE v \in values : \A w \in values : w <= v

\* C39: for 5 to 7 distinct cards the category evaluatePokerHand returns is
\* the category of the best five-card hand that can be chosen from them
\* under standard ranking; two three-of-a-kinds among seven cards are a full
\* house.
C39_CategoryOfBestFiveCards ==
    (mapOut # NoValue /\ "holeCards" \in DOMAIN mapIn
        /\ Cardinality(EvaluatedCards) \in 5..7)
    => mapOut.category = CategoryOfValue[BestFiveCardValue(EvaluatedCards)]

====
